---- MODULE Spec2Model ----
(***************************************************************************)
(* Model of the fastssm_parameter resource of terraform-provider-fastssm:  *)
(* the lifecycle handlers Create, Read, Update and Delete of               *)
(* ParameterResource, the retry closures they hand to retry.RetryContext,  *)
(* the failure classifier isRetryableError and the gateway helper          *)
(* findParameterByName, run against a model of the remote parameter store. *)
(*                                                                         *)
(* Time is counted in ticks of the classifier's fixed delay (5 seconds).   *)
(* retry.RetryContext(ctx, timeout, f) calls f again after f returned a    *)
(* RetryableError while the timeout has not elapsed, and returns as soon   *)
(* as f returned nil or a NonRetryableError.                               *)
(***************************************************************************)
EXTENDS Integers, Sequences, FiniteSets, TLC

VARIABLES
    store,      \* the remote parameter store: name -> parameter or Absent
    state,      \* the Terraform state of the resource, as the host persisted it
    op,         \* the lifecycle call in progress (or the last one finished)
    pc,         \* position of the handler: the remote call it is about to make
    data,       \* the handler's local variable `data`
    res,        \* the handler's fetched parameter (`res`, `get.Parameter`)
    session,    \* the retry session of the loop the handler is in
    resp,       \* the handler's response: resp.State and resp.Diagnostics
    stats,      \* history of the call in progress: requests sent, loops entered
    probe       \* input and result of one classifier application

vars == <<store, state, op, pc, data, res, session, resp, stats, probe>>

----------------------------------------------------------------------------
(* Bounds of the model *)

MaxVersion == 2         \* versions the store hands out are 1..MaxVersion
WriteTimeout == 2       \* ticks in the deadline of PutParameter and DeleteParameter loops
FetchTimeout == 2       \* ticks in the deadline of GetParameter loops
DescribeTimeout == 2    \* ticks in the deadline of the DescribeParameters loop
MaxAttempts == 4        \* cap on the attempts counted in one retry session

----------------------------------------------------------------------------
(* Values *)

Null == "<null>"            \* a null types.String
Unknown == "<unknown>"      \* an unknown (computed, not yet known) value
NullInt == 0 - 1            \* a null types.Int64
UnknownInt == 0 - 2         \* an unknown types.Int64
Nil == "<nil>"              \* a nil *string

Names == {"n1"}
Values == {"a", "b"}
Types == {"String", "SecureString"}
SecureString == "SecureString"

ArnOf(name) == <<"arn", name>>

\* types.String.ValueString(): "" for null and unknown
ValueString(v) == IF v \in {Null, Unknown} THEN "" ELSE v

\* types.Int64.ValueInt64(): 0 for null and unknown
ValueInt64(v) == IF v \in {NullInt, UnknownInt} THEN 0 ELSE v

\* types.Bool.ValueBool(): false for null
ValueBool(v) == v = "true"

IsNull(v) == v = Null
IsUnknown(v) == v = Unknown

----------------------------------------------------------------------------
(* Errors.  An error value is described by what errors.As finds in its     *)
(* chain: the code of an smithy.APIError, a ratelimit.QuotaExceededError,  *)
(* a retry.NotFoundError, a tfresource.EmptyResultError.                   *)

NoError == [nil |-> TRUE]

Err(code, quota, notFound, empty) ==
    [nil |-> FALSE, api |-> code, quota |-> quota, notFound |-> notFound, empty |-> empty,
     wrapped |-> FALSE]

ApiError(code) == Err(code, FALSE, FALSE, FALSE)
Throttling == ApiError("ThrottlingException")
QuotaExceeded == Err("", TRUE, FALSE, FALSE)
ThrottledAndQuota == Err("ThrottlingException", TRUE, FALSE, FALSE)
AccessDenied == ApiError("AccessDeniedException")
ParameterNotFound == ApiError("ParameterNotFound")
ParameterAlreadyExists == ApiError("ParameterAlreadyExists")
ValidationException == ApiError("ValidationException")

\* tfresource.NewEmptyResultError(input)
NewEmptyResultError == Err("", FALSE, FALSE, TRUE)

\* A wrapping that keeps the text of erri only, as %v does
WrapOpaque(err) == [Err("", FALSE, FALSE, FALSE) EXCEPT !.wrapped = TRUE]

\* fmt.Errorf("temporary failure: %w, retrying...", erri) and
\* fmt.Errorf("permanent failure: %w", erri): %w keeps the chain of erri
Wrapf(err) == [err EXCEPT !.wrapped = TRUE]

\* tfresource.NotFound(err): err is, or converts to, a *retry.NotFoundError
NotFound(err) == (~err.nil) /\ (err.notFound \/ err.empty)

\* A classifier that takes every API error for throttling
RetryAnyApiError(err) ==
    IF err.nil THEN [retry |-> FALSE, sleeps |-> 0]
    ELSE IF err.api # "" THEN [retry |-> TRUE, sleeps |-> 1]
    ELSE IF err.quota THEN [retry |-> TRUE, sleeps |-> 1]
    ELSE [retry |-> FALSE, sleeps |-> 0]

\* A classifier that sleeps in the throttling branch and in the quota branch
SleepTwiceOnBoth(err) ==
    IF err.nil THEN [retry |-> FALSE, sleeps |-> 0]
    ELSE [retry |-> err.api = "ThrottlingException" \/ err.quota,
          sleeps |-> (IF err.api = "ThrottlingException" THEN 1 ELSE 0)
                     + (IF err.quota THEN 1 ELSE 0)]

\* isRetryableError(ctx, err): whether to retry, and the fixed delays slept.
\* The throttling branch returns before the quota branch is looked at
isRetryableError(err) ==
    IF err.nil THEN [retry |-> FALSE, sleeps |-> 0]
    ELSE IF err.api = "ThrottlingException" THEN [retry |-> TRUE, sleeps |-> 1]
    ELSE IF err.quota THEN [retry |-> TRUE, sleeps |-> 1]
    ELSE [retry |-> FALSE, sleeps |-> 0]

----------------------------------------------------------------------------
(* The remote parameter store *)

Absent == [exists |-> FALSE]
NoParam == [exists |-> FALSE]

\* Errors any request may be answered with instead of being served
Faults == {Throttling, QuotaExceeded, ThrottledAndQuota, AccessDenied}

\* GetParameterOutput.Parameter for a stored parameter
ParameterOf(name, p) ==
    [exists |-> TRUE, name |-> name, arn |-> ArnOf(name), type |-> p.type,
     value |-> p.value, dataType |-> p.dataType, version |-> p.version]

\* client.GetParameter: the answers the store may give
GetParameter(st, name) ==
    {[err |-> f, param |-> NoParam] : f \in Faults}
    \cup {[err |-> NoError, param |-> NoParam]}
    \cup {IF st[name].exists
          THEN [err |-> NoError, param |-> ParameterOf(name, st[name])]
          ELSE [err |-> ParameterNotFound, param |-> NoParam]}

\* client.PutParameter, served: the answer and the store afterwards
PutServed(st, in) ==
    LET old == st[in.name] IN
    IF in.value = "" THEN [err |-> ValidationException, version |-> 0, store |-> st]
    ELSE IF old.exists /\ ~in.overwrite
    THEN [err |-> ParameterAlreadyExists, version |-> 0, store |-> st]
    ELSE LET v == IF old.exists THEN old.version + 1 ELSE 1
             new == [exists |-> TRUE, value |-> in.value, type |-> in.type,
                     dataType |-> IF in.dataType = Nil THEN "text" ELSE in.dataType,
                     description |-> IF in.description = Nil /\ old.exists
                                     THEN old.description ELSE in.description,
                     version |-> v]
         IN [err |-> NoError, version |-> v, store |-> [st EXCEPT ![in.name] = new]]

\* client.PutParameter: the answers the store may give
PutParameter(st, in) ==
    {[err |-> f, version |-> 0, store |-> st] : f \in Faults}
    \cup (IF st[in.name].exists /\ st[in.name].version >= MaxVersion /\ in.overwrite
          THEN {} ELSE {PutServed(st, in)})

\* client.DescribeParameters with the filter Name Equals name: the answers
DescribeParameters(st, name) ==
    {[err |-> f, parameters |-> <<>>] : f \in Faults}
    \cup {[err |-> NoError, parameters |-> <<>>]}
    \cup (IF st[name].exists
          THEN {[err |-> NoError, parameters |-> <<[description |-> st[name].description]>>],
                [err |-> NoError, parameters |-> <<[description |-> st[name].description],
                                                   [description |-> Nil]>>]}
          ELSE {})

\* client.DeleteParameter: the answers the store may give
DeleteParameter(st, name) ==
    {[err |-> f, store |-> st] : f \in Faults}
    \cup {IF st[name].exists
          THEN [err |-> NoError, store |-> [st EXCEPT ![name] = Absent]]
          ELSE [err |-> ParameterNotFound, store |-> st]}

----------------------------------------------------------------------------
(* Gateway helper *)

\* A gateway that reports an empty payload as a plain error
EmptyIsPlainError(raw) ==
    IF (~raw.err.nil) /\ raw.err.api = "ParameterNotFound"
    THEN [param |-> NoParam, err |-> [raw.err EXCEPT !.notFound = TRUE]]
    ELSE IF ~raw.err.nil THEN [param |-> NoParam, err |-> raw.err]
    ELSE IF ~raw.param.exists THEN [param |-> NoParam, err |-> ApiError("EmptyResult")]
    ELSE [param |-> raw.param, err |-> NoError]

\* findParameterByName(ctx, conn, name, withDecryption), given GetParameter's answer
findParameterByName(raw) ==
    IF (~raw.err.nil) /\ raw.err.api = "ParameterNotFound"
    THEN [param |-> NoParam, err |-> [raw.err EXCEPT !.notFound = TRUE]]
    ELSE IF ~raw.err.nil THEN [param |-> NoParam, err |-> raw.err]
    ELSE IF ~raw.param.exists THEN [param |-> NoParam, err |-> NewEmptyResultError]
    ELSE [param |-> raw.param, err |-> NoError]

----------------------------------------------------------------------------
(* The resource model (ParameterResourceModel) and the handler's response *)

NoState == [present |-> FALSE]

Model(name, value, insecure, type, dataType, description, arn, version) ==
    [present |-> TRUE, name |-> name, value |-> value, insecure_value |-> insecure,
     type |-> type, data_type |-> dataType, description |-> description,
     allowed_pattern |-> Null, overwrite |-> Null, tags |-> Null,
     arn |-> arn, version |-> version]

EmptyResponse == [set |-> FALSE, state |-> NoState, errors |-> <<>>, warnings |-> <<>>]

\* resp.Diagnostics.AddError(summary, detail)
AddError(r, summary) == [r EXCEPT !.errors = Append(@, summary)]

\* resp.Diagnostics.AddWarning(summary, detail)
AddWarning(r, summary) == [r EXCEPT !.warnings = Append(@, summary)]

\* resp.State.Set(ctx, &data)
StateSet(r, d) == [r EXCEPT !.set = TRUE, !.state = d]

\* resp.Diagnostics.HasError()
HasError(r) == r.errors # <<>>

\* The plans the host hands to Create: the configuration gives name, type, one
\* of value and insecure_value, and maybe a description; data_type defaults to
\* "text"; arn, version and an unconfigured insecure_value are unknown
CreatePlans ==
    {Model(n, v, Unknown, t, "text", d, Unknown, UnknownInt) :
        n \in Names, v \in Values, t \in Types, d \in {Null, "d1"}}
    \cup {Model(n, Null, v, "String", "text", Null, Unknown, UnknownInt) :
        n \in Names, v \in Values}

\* The plans the host hands to Update for the prior state s: name, type and
\* data_type are kept (a change of them replaces the resource)
UpdatePlans(s) ==
    {[s EXCEPT !.value = v, !.insecure_value = Unknown, !.description = d,
               !.arn = Unknown, !.version = UnknownInt] :
        v \in Values, d \in {Null, "d1"}}
    \cup (IF s.type = SecureString THEN {}
          ELSE {[s EXCEPT !.value = Null, !.insecure_value = v, !.description = Null,
                          !.arn = Unknown, !.version = UnknownInt] : v \in Values})

\* types.String.ValueStringPointer(): nil for null
ValueStringPointer(v) == IF v = Null THEN Nil ELSE ValueString(v)

----------------------------------------------------------------------------
(* Retry sessions *)

Apis == {"PutParameter", "GetParameter", "DescribeParameters", "DeleteParameter"}

NewSession(api) ==
    [api |-> api, attempts |-> 0, retried |-> 0, sleeps |-> 0, elapsed |-> 0,
     last |-> "none"]

Min(a, b) == IF a < b THEN a ELSE b

\* The time on the loop's clock after an attempt that slept `slept` fixed
\* delays: the delays at least, the whole deadline at most
Advance(elapsed, slept, timeout) == {Min(elapsed + slept, timeout), timeout}

\* A loop that has no deadline
RetryForever(s, erri, timeout) ==
    IF s.attempts >= MaxAttempts THEN {}
    ELSE IF erri.nil
    THEN {[s EXCEPT !.attempts = @ + 1, !.last = "success"]}
    ELSE LET c == isRetryableError(erri) IN
         IF c.retry
         THEN {[s EXCEPT !.attempts = @ + 1, !.retried = @ + 1,
                         !.sleeps = @ + c.sleeps, !.elapsed = e,
                         !.last = "retryable"] :
                 e \in Advance(s.elapsed, c.sleeps, timeout)}
         ELSE {[s EXCEPT !.attempts = @ + 1, !.last = "permanent"]}

\* A closure that returns every error as a RetryableError
AlwaysRetryable(s, erri, timeout) ==
    IF s.attempts >= MaxAttempts THEN {}
    ELSE IF erri.nil
    THEN {[s EXCEPT !.attempts = @ + 1, !.last = "success"]}
    ELSE {[s EXCEPT !.attempts = @ + 1, !.retried = @ + 1, !.sleeps = @ + 1,
                    !.elapsed = e,
                    !.last = IF e >= timeout THEN "timeout" ELSE "retryable"] :
            e \in Advance(s.elapsed, 1, timeout)}

\* One run of the closure handed to retry.RetryContext, for the error erri of
\* its remote call, and what the loop does with the closure's result: the
\* sessions the loop may be in afterwards
RetryFunc(s, erri, timeout) ==
    IF s.attempts >= MaxAttempts THEN {}
    ELSE IF erri.nil
    THEN {[s EXCEPT !.attempts = @ + 1, !.last = "success"]}
    ELSE LET c == isRetryableError(erri) IN
         IF c.retry
         THEN {[s EXCEPT !.attempts = @ + 1, !.retried = @ + 1,
                         !.sleeps = @ + c.sleeps, !.elapsed = e,
                         !.last = IF e >= timeout THEN "timeout" ELSE "retryable"] :
                 e \in Advance(s.elapsed, c.sleeps, timeout)}
         ELSE {[s EXCEPT !.attempts = @ + 1, !.last = "permanent"]}

\* The error retry.RetryContext returns when the loop returned after the
\* closure's call ended with erri: nil after a success, else the error the
\* closure wrapped
LoopErr(s, erri) == IF s.last = "success" THEN NoError ELSE Wrapf(erri)

----------------------------------------------------------------------------
(* History of the lifecycle call in progress *)

NoRequest == [sent |-> FALSE]

NewStats(prior, was, fresh) ==
    [prior |-> prior,                       \* req.Plan or req.State
     was |-> was,                           \* the persisted state when the call began
     sent |-> [a \in Apis |-> 0],           \* requests sent to the store
     served |-> [a \in Apis |-> 0],         \* requests answered without error
     loops |-> [a \in Apis |-> 0],          \* retry loops entered
     bare |-> 0,                            \* requests sent outside a retry loop
     answer |-> "none",                     \* how the loop's last request was answered
     hard |-> FALSE,                        \* a request failed with a non-retryable error
     failed |-> "no",                       \* how a remote call ended for good, if it failed
     afterFail |-> 0,                       \* requests sent after such a failure
     fresh |-> fresh,                       \* state written by a Read, store untouched since
     quiet |-> fresh,                       \* ... and not written during this call either
     touched |-> FALSE,                     \* store written since this call's fetch
     fetched |-> "none",                    \* how the last GetParameter request was answered
     request |-> NoRequest,                 \* the last PutParameterInput sent
     before |-> Absent,                     \* what Create's request met in the store
     assigned |-> 0,                        \* the version the store returned for the write
     removed |-> "none",                    \* how the last DeleteParameter request was answered
     matches |-> 0 - 1]                     \* metadata records in the answer of DescribeParameters

\* A retry loop around `api` is entered
Enter(st, api) == [st EXCEPT !.loops[api] = @ + 1, !.answer = "none"]

\* A request to `api` was sent and answered with erri; `terminal`: the call
\* (the loop, or the request outside a loop) thereby ended in failure
Sent(st, api, inLoop, erri, terminal) ==
    [st EXCEPT !.sent[api] = @ + 1,
               !.served[api] = @ + (IF erri.nil THEN 1 ELSE 0),
               !.bare = @ + (IF inLoop THEN 0 ELSE 1),
               !.afterFail = @ + (IF st.failed # "no" THEN 1 ELSE 0),
               !.answer = IF ~inLoop THEN @
                          ELSE IF erri.nil THEN "ok"
                          ELSE IF isRetryableError(erri).retry THEN "retryable"
                          ELSE "permanent",
               !.hard = @ \/ (~erri.nil /\ ~isRetryableError(erri).retry),
               !.failed = IF ~terminal THEN @
                          ELSE IF NotFound(erri) THEN "notfound" ELSE "other"]

\* A GetParameter request was answered with raw
Fetched(st, raw) ==
    [st EXCEPT !.fetched = IF raw.err.nil
                           THEN (IF raw.param.exists THEN "parameter" ELSE "hollow")
                           ELSE IF raw.err.api = "ParameterNotFound" THEN "absent"
                           ELSE "fault"]

\* The PutParameterInput `in` was sent while the store held `old` under its
\* name, and answered with ans
Wrote(st, in, old, ans) ==
    [st EXCEPT !.request = [in EXCEPT !.sent = TRUE],
               !.before = IF op = "Create" THEN old ELSE @,
               !.assigned = IF ans.err.nil THEN ans.version ELSE @]

\* A DeleteParameter request was answered with ans
Removed(st, ans) ==
    [st EXCEPT !.removed = IF ans.err.nil THEN "deleted"
                           ELSE IF ans.err.api = "ParameterNotFound" THEN "absent"
                           ELSE "fault"]

\* A DescribeParameters request was answered with ans
Listed(st, ans) ==
    [st EXCEPT !.matches = IF ans.err.nil THEN Len(ans.parameters) ELSE @]

\* What the host persists when the handler has returned: the state of the
\* resource is not that of a data source or an ephemeral resource
Commit(o, r, old) ==
    IF HasError(r) THEN old
    ELSE IF o \in {"DataRead", "Open"} THEN old
    ELSE IF o = "Delete" THEN NoState
    ELSE IF r.set THEN r.state
    ELSE old

----------------------------------------------------------------------------
(* ParameterResource.Create *)

\* A Create that sends Overwrite as Update does
CreateOverwrites(d) ==
    [sent |-> FALSE, name |-> d.name, value |-> ValueString(d.value),
     type |-> ValueString(d.type),
     allowedPattern |-> ValueStringPointer(d.allowed_pattern),
     dataType |-> ValueStringPointer(d.data_type),
     description |-> ValueStringPointer(d.description), overwrite |-> TRUE]

\* The PutParameterInput of Create: Overwrite is left unset
CreateInput(d) ==
    [sent |-> FALSE, name |-> d.name, value |-> ValueString(d.value),
     type |-> ValueString(d.type),
     allowedPattern |-> ValueStringPointer(d.allowed_pattern),
     dataType |-> ValueStringPointer(d.data_type),
     description |-> ValueStringPointer(d.description), overwrite |-> FALSE]

\* A Create that goes on to its read-back whatever the write returned
CreateFetchesAnyway(d, r, err, version) ==
    [pc |-> "get", data |-> [d EXCEPT !.version = version], resp |-> r]

\* Create after its PutParameter loop returned err and, on success, version
CreateAfterPut(d, r, err, version) ==
    IF ~err.nil
    THEN [pc |-> "done", data |-> d, resp |-> AddError(r, "SSM parameter create error")]
    ELSE [pc |-> "get", data |-> [d EXCEPT !.version = version], resp |-> r]

\* A Create that leaves insecure_value as the plan had it
CreateKeepsPlanned(d, r, raw) ==
    IF ~raw.err.nil
    THEN [pc |-> "done", data |-> d, resp |-> AddError(r, "parameter get failed")]
    ELSE IF ~raw.param.exists
    THEN [pc |-> "panic", data |-> d, resp |-> r]
    ELSE LET d1 == [d EXCEPT !.arn = raw.param.arn]
         IN [pc |-> "done", data |-> d1, resp |-> StateSet(r, d1)]

\* Create after its GetParameter request was answered with raw
CreateAfterGet(d, r, raw) ==
    IF ~raw.err.nil
    THEN [pc |-> "done", data |-> d, resp |-> AddError(r, "parameter get failed")]
    ELSE IF ~raw.param.exists
    THEN [pc |-> "panic", data |-> d, resp |-> r]
    ELSE LET d1 == [d EXCEPT !.arn = raw.param.arn]
             d2 == [d1 EXCEPT !.insecure_value =
                        IF raw.param.type # SecureString THEN d1.value ELSE Null]
         IN [pc |-> "done", data |-> d2, resp |-> StateSet(r, d2)]

----------------------------------------------------------------------------
(* ParameterResource.Read *)

\* A condition that compares the version and the name alone
VersionAlone(d, p) ==
    /\ p.version # ValueInt64(d.version)
    /\ ValueString(d.name) = p.name

\* A condition that does not compare the version
IgnoreVersion(d, p) ==
    /\ ValueString(d.name) = p.name
    /\ ValueString(d.type) = p.type
    /\ ValueString(d.data_type) = p.dataType
    /\ ValueString(d.value) = p.value

\* A condition that does not compare the value
IgnoreValue(d, p) ==
    /\ p.version # ValueInt64(d.version)
    /\ ValueString(d.name) = p.name
    /\ ValueString(d.type) = p.type
    /\ ValueString(d.data_type) = p.dataType

\* Only call DescribeParameters if nothing but the version has changed
ShouldDescribe(d, p) ==
    /\ p.version # ValueInt64(d.version)
    /\ ValueString(d.name) = p.name
    /\ ValueString(d.type) = p.type
    /\ ValueString(d.data_type) = p.dataType
    /\ ValueString(d.value) = p.value

\* A merge that builds the record from the fetched parameter alone
MergeFromFetched(d, p) ==
    Model(p.name, p.value, IF p.type # SecureString THEN p.value ELSE Null,
          p.type, p.dataType, Null, p.arn, p.version)

\* A merge that leaves the local version as it was
KeepVersion(d, p) ==
    LET d1 == [d EXCEPT !.arn = p.arn, !.name = p.name, !.type = p.type,
                        !.data_type = p.dataType,
                        !.value = p.value]
    IN IF p.type # SecureString THEN [d1 EXCEPT !.insecure_value = p.value] ELSE d1

\* A merge that populates only the field that goes with the type
MirrorOnly(d, p) ==
    LET d1 == [d EXCEPT !.arn = p.arn, !.name = p.name, !.type = p.type,
                        !.version = p.version, !.data_type = p.dataType]
    IN IF p.type # SecureString
       THEN [d1 EXCEPT !.value = Null, !.insecure_value = p.value]
       ELSE [d1 EXCEPT !.value = p.value, !.insecure_value = Null]

\* The fetched fields are copied into data
ReadMerge(d, p) ==
    LET d1 == [d EXCEPT !.arn = p.arn, !.name = p.name, !.type = p.type,
                        !.version = p.version, !.data_type = p.dataType,
                        !.value = p.value]
        d2 == IF IsNull(d1.value) \/ IsUnknown(d1.value)
              THEN [d1 EXCEPT !.value = d1.insecure_value] ELSE d1
    IN IF p.type # SecureString THEN [d2 EXCEPT !.insecure_value = p.value] ELSE d2

\* A Read that enumerates after every fetch that found the parameter
ReadAlwaysDescribes(d, r, err, p) ==
    IF NotFound(err)
    THEN LET d1 == [d EXCEPT !.name = Null]
         IN [pc |-> "done", data |-> d1,
             resp |-> StateSet(AddError(r, "parameter not found"), d1)]
    ELSE IF ~err.nil
    THEN [pc |-> "done", data |-> d, resp |-> AddError(r, "Client Error")]
    ELSE [pc |-> "describe", data |-> d,
          resp |-> AddWarning(r, "Running DescribeParameter call")]

\* Read after its fetch loop returned err and, on success, the parameter p
ReadAfterFetch(d, r, err, p) ==
    IF NotFound(err)
    THEN LET d1 == [d EXCEPT !.name = Null]
         IN [pc |-> "done", data |-> d1,
             resp |-> StateSet(AddError(r, "parameter not found"), d1)]
    ELSE IF ~err.nil
    THEN [pc |-> "done", data |-> d, resp |-> AddError(r, "Client Error")]
    ELSE IF ShouldDescribe(d, p)
    THEN [pc |-> "describe", data |-> d,
          resp |-> AddWarning(r, "Running DescribeParameter call")]
    ELSE LET d1 == ReadMerge(d, p)
         IN [pc |-> "done", data |-> d1, resp |-> StateSet(r, d1)]

\* A Read that does not take the description from the result
DescribeIgnoresResult(d, r, err, md, p) ==
    IF ~err.nil
    THEN [pc |-> "done", data |-> d,
          resp |-> AddError(r, "Something went wrong while getting parameter metadata")]
    ELSE IF Len(md) = 0 \/ Len(md) > 1
    THEN [pc |-> "done", data |-> d,
          resp |-> AddError(r, "Incorrect response for parameter metadata")]
    ELSE LET d2 == ReadMerge(d, p)
         IN [pc |-> "done", data |-> d2, resp |-> StateSet(r, d2)]

\* A Read that takes the first metadata record when there are several
DescribeTakesFirst(d, r, err, md, p) ==
    IF ~err.nil
    THEN [pc |-> "done", data |-> d,
          resp |-> AddError(r, "Something went wrong while getting parameter metadata")]
    ELSE IF Len(md) = 0
    THEN [pc |-> "done", data |-> d,
          resp |-> AddError(r, "Incorrect response for parameter metadata")]
    ELSE LET d1 == [d EXCEPT !.description =
                        IF md[1].description # Nil THEN md[1].description ELSE ""]
             d2 == ReadMerge(d1, p)
         IN [pc |-> "done", data |-> d2, resp |-> StateSet(r, d2)]

\* Read after its DescribeParameters loop returned err and, on success, the
\* metadata records md; p is the parameter fetched before
ReadAfterDescribe(d, r, err, md, p) ==
    IF ~err.nil
    THEN [pc |-> "done", data |-> d,
          resp |-> AddError(r, "Something went wrong while getting parameter metadata")]
    ELSE IF Len(md) = 0 \/ Len(md) > 1
    THEN [pc |-> "done", data |-> d,
          resp |-> AddError(r, "Incorrect response for parameter metadata")]
    ELSE LET d1 == [d EXCEPT !.description =
                        IF md[1].description # Nil THEN md[1].description ELSE ""]
             d2 == ReadMerge(d1, p)
         IN [pc |-> "done", data |-> d2, resp |-> StateSet(r, d2)]

----------------------------------------------------------------------------
(* ParameterResource.Update *)

\* An Update that mirrors value into insecure_value whatever the type
UpdateMirrorsAlways(plan) ==
    [plan EXCEPT !.insecure_value = plan.value]

\* copy value to insecure_value if it's not a secure string
UpdatePrepare(plan) ==
    IF ValueString(plan.type) # "SecureString"
    THEN [plan EXCEPT !.insecure_value = plan.value]
    ELSE [plan EXCEPT !.insecure_value = Null]

\* An Update that takes Overwrite from the record's overwrite attribute
UpdateHonoursOverwrite(d) ==
    [sent |-> FALSE, name |-> d.name, value |-> ValueString(d.value),
     type |-> ValueString(d.type),
     allowedPattern |-> ValueStringPointer(d.allowed_pattern),
     dataType |-> ValueStringPointer(d.data_type),
     description |-> ValueStringPointer(d.description),
     overwrite |-> ValueBool(d.overwrite)]

\* The PutParameterInput of Update: Update should always overwrite
UpdateInput(d) ==
    [sent |-> FALSE, name |-> d.name, value |-> ValueString(d.value),
     type |-> ValueString(d.type),
     allowedPattern |-> ValueStringPointer(d.allowed_pattern),
     dataType |-> ValueStringPointer(d.data_type),
     description |-> ValueStringPointer(d.description), overwrite |-> TRUE]

\* An Update that leaves the planned version in the record
UpdateKeepsPlannedVersion(d, r, err, version) ==
    IF ~err.nil
    THEN [pc |-> "done", data |-> d, resp |-> AddError(r, "SSM parameter update error")]
    ELSE [pc |-> "fetch", data |-> d, resp |-> r]

\* Update after its PutParameter loop returned err and, on success, version
UpdateAfterPut(d, r, err, version) ==
    IF ~err.nil
    THEN [pc |-> "done", data |-> d, resp |-> AddError(r, "SSM parameter update error")]
    ELSE [pc |-> "fetch", data |-> [d EXCEPT !.version = version], resp |-> r]

\* An Update that writes its state whatever the fetch loop returned
UpdateIgnoresFetchError(d, r, err, p) ==
    LET d1 == IF p.exists THEN [d EXCEPT !.arn = p.arn] ELSE d
    IN [pc |-> "done", data |-> d1, resp |-> StateSet(r, d1)]

\* An Update that takes Read's path when its read-back finds nothing
UpdateClearsOnNotFound(d, r, err, p) ==
    IF (~err.nil) /\ NotFound(err)
    THEN LET d0 == [d EXCEPT !.name = Null]
         IN [pc |-> "done", data |-> d0,
             resp |-> StateSet(AddWarning(r, "Parameter not found"), d0)]
    ELSE IF ~err.nil
    THEN [pc |-> "done", data |-> d, resp |-> AddError(r, "parameter get failed")]
    ELSE LET d1 == [d EXCEPT !.arn = p.arn]
         IN IF HasError(r) THEN [pc |-> "done", data |-> d1, resp |-> r]
            ELSE [pc |-> "done", data |-> d1, resp |-> StateSet(r, d1)]

\* An Update that refreshes the version from the parameter it read back
UpdateTakesFetchedVersion(d, r, err, p) ==
    IF ~err.nil
    THEN [pc |-> "done", data |-> d, resp |-> AddError(r, "parameter get failed")]
    ELSE LET d1 == [d EXCEPT !.arn = p.arn, !.version = p.version]
         IN IF HasError(r) THEN [pc |-> "done", data |-> d1, resp |-> r]
            ELSE [pc |-> "done", data |-> d1, resp |-> StateSet(r, d1)]

\* Update after its fetch loop returned err and, on success, the parameter p
UpdateAfterFetch(d, r, err, p) ==
    IF ~err.nil
    THEN [pc |-> "done", data |-> d, resp |-> AddError(r, "parameter get failed")]
    ELSE LET d1 == [d EXCEPT !.arn = p.arn]
         IN IF HasError(r) THEN [pc |-> "done", data |-> d1, resp |-> r]
            ELSE [pc |-> "done", data |-> d1, resp |-> StateSet(r, d1)]

----------------------------------------------------------------------------
(* ParameterResource.Delete *)

\* Delete after its DeleteParameter loop returned err
DeleteAfter(d, r, err) ==
    IF ~err.nil
    THEN [pc |-> "done", data |-> d, resp |-> AddError(r, "Client Error")]
    ELSE [pc |-> "done", data |-> d, resp |-> r]

----------------------------------------------------------------------------
(* ParameterDataSource.Read and ParameterEphemeral.Open *)

\* ParameterDataSourceModel and ParameterEphemeralModel as the configuration
\* gives them: name is required, with_decryption optional, the rest computed
DataModel(name, withDecryption) ==
    [present |-> TRUE, name |-> name, arn |-> Null, insecure_value |-> Null,
     type |-> Null, value |-> Null, version |-> NullInt,
     with_decryption |-> withDecryption]

DataConfigs == {DataModel(n, w) : n \in Names, w \in {Null, "true", "false"}}

\* A data source that decrypts only when with_decryption is set to true
DecryptionOnRequest(d) == ValueBool(d.with_decryption)

\* decryption := true unless with_decryption is given
Decryption(d) ==
    IF ~IsNull(d.with_decryption) THEN ValueBool(d.with_decryption) ELSE TRUE

\* The value of a SecureString parameter fetched without decryption
Ciphertext(v) == <<"kms", v>>

\* GetParameter's answer under the request's WithDecryption
WithDecryption(raw, decrypt) ==
    IF raw.err.nil /\ raw.param.exists /\ raw.param.type = SecureString /\ ~decrypt
    THEN [raw EXCEPT !.param.value = Ciphertext(@)]
    ELSE raw

\* Read of the data source after its fetch loop returned err and, on success,
\* the parameter p
DataSourceAfterFetch(d, r, err, p) ==
    IF NotFound(err)
    THEN LET d1 == [d EXCEPT !.name = Null]
         IN [pc |-> "done", data |-> d1,
             resp |-> StateSet(AddError(r, "parameter not found"), d1)]
    ELSE IF ~err.nil
    THEN [pc |-> "done", data |-> d, resp |-> AddError(r, "Client Error")]
    ELSE LET d1 == [d EXCEPT !.arn = p.arn, !.name = p.name, !.type = p.type,
                             !.version = p.version, !.value = p.value]
             d2 == IF ~IsNull(d1.insecure_value) /\ p.type # SecureString
                   THEN [d1 EXCEPT !.insecure_value = p.value] ELSE d1
         IN [pc |-> "done", data |-> d2, resp |-> StateSet(r, d2)]

\* Open of the ephemeral resource after its fetch loop returned err and, on
\* success, the parameter p (resp.Result.Set for resp.State.Set)
OpenAfterFetch(d, r, err, p) ==
    IF NotFound(err)
    THEN LET d1 == [d EXCEPT !.name = Null]
         IN [pc |-> "done", data |-> d1,
             resp |-> StateSet(AddError(r, "parameter not found"), d1)]
    ELSE IF ~err.nil
    THEN [pc |-> "done", data |-> d, resp |-> AddError(r, "Client Error")]
    ELSE LET d1 == [d EXCEPT !.arn = p.arn, !.name = p.name, !.type = p.type,
                             !.version = p.version, !.value = p.value]
             d2 == IF ~IsNull(d1.insecure_value) /\ p.type # SecureString
                   THEN [d1 EXCEPT !.insecure_value = p.value] ELSE d1
         IN [pc |-> "done", data |-> d2, resp |-> StateSet(r, d2)]

----------------------------------------------------------------------------
(* The state machine *)

NoProbe == [err |-> NoError, applied |-> FALSE, result |-> [retry |-> FALSE, sleeps |-> 0]]

Init ==
    /\ store = [n \in Names |-> Absent]
    /\ state = NoState
    /\ op = "none"
    /\ pc = "idle"
    /\ data = NoState
    /\ res = NoParam
    /\ session = NewSession("none")
    /\ resp = EmptyResponse
    /\ stats = NewStats(NoState, NoState, FALSE)
    /\ probe = NoProbe

\* No lifecycle call is in progress: the host may start one
Idle == pc = "idle"

\* The moments at which a write by someone else is taken to reach the store:
\* between two lifecycle calls, and between two remote calls of one handler.
\* A request answered with a fault does not reach the store, so a write between
\* two attempts of one call is a write before the first attempt of that call,
\* and a write before a handler's first call is a write before the handler.
Between ==
    \/ pc = "idle"
    \/ pc = "get"
    \/ pc = "describe" /\ session.attempts = 0
    \/ pc = "fetch" /\ op = "Update" /\ session.attempts = 0

LoopPcs == {"put", "fetch", "describe", "delete"}

LoopApi(p) ==
    CASE p = "put" -> "PutParameter"
      [] p = "fetch" -> "GetParameter"
      [] p = "describe" -> "DescribeParameters"
      [] p = "delete" -> "DeleteParameter"

\* The store was written
Touch(st) == [st EXCEPT !.fresh = FALSE, !.quiet = FALSE, !.touched = TRUE]

\* The handler returned with frame f: a Read that wrote its state leaves the
\* state fresh unless the store was written since its fetch
Settle(st, f) ==
    IF f.pc = "done" /\ op = "Read" /\ ~HasError(f.resp) /\ f.resp.set
    THEN [st EXCEPT !.fresh = ~st.touched]
    ELSE st

\* The handler goes on to frame f: it enters the retry loop of its next call,
\* or has returned (and the host persists the response's state)
Proceed(f, s2, st) ==
    /\ pc' = f.pc
    /\ data' = f.data
    /\ resp' = f.resp
    /\ state' = IF f.pc = "done" THEN Commit(op, f.resp, state) ELSE state
    /\ IF f.pc \in LoopPcs
       THEN /\ session' = NewSession(LoopApi(f.pc))
            /\ stats' = Enter(st, LoopApi(f.pc))
       ELSE /\ session' = s2
            /\ stats' = Settle(st, f)

\* The loop goes round: the closure will be called again
Again(s2, st) ==
    /\ session' = s2
    /\ stats' = st
    /\ UNCHANGED <<pc, data, resp, state>>

Begin(o, p, d, prior) ==
    /\ op' = o
    /\ pc' = p
    /\ data' = d
    /\ res' = NoParam
    /\ session' = NewSession(LoopApi(p))
    /\ resp' = EmptyResponse
    /\ stats' = Enter(NewStats(prior, state, stats.fresh), LoopApi(p))
    /\ UNCHANGED <<store, state, probe>>

StartCreate ==
    /\ Idle
    /\ ~state.present
    /\ \E plan \in CreatePlans : Begin("Create", "put", plan, plan)

CreatePut ==
    /\ op = "Create" /\ pc = "put"
    /\ \E ans \in PutParameter(store, CreateInput(data)) :
       \E s2 \in RetryFunc(session, ans.err, WriteTimeout) :
          LET st0 == Wrote(stats, CreateInput(data), store[data.name], ans)
              st1 == Sent(st0, "PutParameter", TRUE, ans.err,
                          s2.last \in {"permanent", "timeout"})
              st2 == IF ans.store # store THEN Touch(st1) ELSE st1
          IN /\ store' = ans.store
             /\ IF s2.last = "retryable" THEN Again(s2, st2)
                ELSE Proceed(CreateAfterPut(data, resp, LoopErr(s2, ans.err), ans.version), s2, st2)
    /\ UNCHANGED <<op, res, probe>>

CreateGet ==
    /\ op = "Create" /\ pc = "get"
    /\ \E raw \in GetParameter(store, ValueString(data.name)) :
          /\ res' = raw.param
          /\ Proceed(CreateAfterGet(data, resp, raw), session,
                     Sent(Fetched(stats, raw), "GetParameter", FALSE, raw.err, ~raw.err.nil))
    /\ UNCHANGED <<op, store, probe>>

StartRead ==
    /\ Idle
    /\ state.present
    /\ Begin("Read", "fetch", state, state)

ReadFetch ==
    /\ op = "Read" /\ pc = "fetch"
    /\ \E raw \in GetParameter(store, ValueString(data.name)) :
       LET found == findParameterByName(raw) IN
       \E s2 \in RetryFunc(session, found.err, FetchTimeout) :
          LET st1 == Sent(Fetched(stats, raw), "GetParameter", TRUE, found.err,
                          s2.last \in {"permanent", "timeout"})
              st2 == IF found.err.nil THEN [st1 EXCEPT !.touched = FALSE] ELSE st1
          IN /\ res' = found.param
             /\ IF s2.last = "retryable" THEN Again(s2, st2)
                ELSE Proceed(ReadAfterFetch(data, resp, LoopErr(s2, found.err), found.param), s2, st2)
    /\ UNCHANGED <<op, store, probe>>

ReadDescribe ==
    /\ op = "Read" /\ pc = "describe"
    /\ \E ans \in DescribeParameters(store, ValueString(data.name)) :
       \E s2 \in RetryFunc(session, ans.err, DescribeTimeout) :
          LET st1 == Sent(Listed(stats, ans), "DescribeParameters", TRUE, ans.err,
                          s2.last \in {"permanent", "timeout"})
          IN IF s2.last = "retryable" THEN Again(s2, st1)
             ELSE Proceed(ReadAfterDescribe(data, resp, LoopErr(s2, ans.err), ans.parameters, res),
                          s2, st1)
    /\ UNCHANGED <<op, res, store, probe>>

StartUpdate ==
    /\ Idle
    /\ state.present
    /\ \E plan \in UpdatePlans(state) : Begin("Update", "put", UpdatePrepare(plan), plan)

UpdatePut ==
    /\ op = "Update" /\ pc = "put"
    /\ \E ans \in PutParameter(store, UpdateInput(data)) :
       \E s2 \in RetryFunc(session, ans.err, WriteTimeout) :
          LET st0 == Wrote(stats, UpdateInput(data), store[data.name], ans)
              st1 == Sent(st0, "PutParameter", TRUE, ans.err,
                          s2.last \in {"permanent", "timeout"})
              st2 == IF ans.store # store THEN Touch(st1) ELSE st1
          IN /\ store' = ans.store
             /\ IF s2.last = "retryable" THEN Again(s2, st2)
                ELSE Proceed(UpdateAfterPut(data, resp, LoopErr(s2, ans.err), ans.version), s2, st2)
    /\ UNCHANGED <<op, res, probe>>

UpdateFetch ==
    /\ op = "Update" /\ pc = "fetch"
    /\ \E raw \in GetParameter(store, ValueString(data.name)) :
       LET found == findParameterByName(raw) IN
       \E s2 \in RetryFunc(session, found.err, FetchTimeout) :
          LET st1 == Sent(Fetched(stats, raw), "GetParameter", TRUE, found.err,
                          s2.last \in {"permanent", "timeout"})
          IN /\ res' = found.param
             /\ IF s2.last = "retryable" THEN Again(s2, st1)
                ELSE Proceed(UpdateAfterFetch(data, resp, LoopErr(s2, found.err), found.param), s2, st1)
    /\ UNCHANGED <<op, store, probe>>

StartDelete ==
    /\ Idle
    /\ state.present
    /\ Begin("Delete", "delete", state, state)

DeleteCall ==
    /\ op = "Delete" /\ pc = "delete"
    /\ \E ans \in DeleteParameter(store, ValueString(data.name)) :
       \E s2 \in RetryFunc(session, ans.err, WriteTimeout) :
          LET st1 == Sent(Removed(stats, ans), "DeleteParameter", TRUE, ans.err,
                          s2.last \in {"permanent", "timeout"})
              st2 == IF ans.store # store THEN Touch(st1) ELSE st1
          IN /\ store' = ans.store
             /\ IF s2.last = "retryable" THEN Again(s2, st2)
                ELSE Proceed(DeleteAfter(data, resp, LoopErr(s2, ans.err)), s2, st2)
    /\ UNCHANGED <<op, res, probe>>

StartDataRead ==
    /\ Idle
    /\ \E config \in DataConfigs : Begin("DataRead", "fetch", config, config)

DataReadFetch ==
    /\ op = "DataRead" /\ pc = "fetch"
    /\ \E answer \in GetParameter(store, ValueString(data.name)) :
       LET raw == WithDecryption(answer, Decryption(data))
           found == findParameterByName(raw) IN
       \E s2 \in RetryFunc(session, found.err, FetchTimeout) :
          LET st1 == Sent(Fetched(stats, raw), "GetParameter", TRUE, found.err,
                          s2.last \in {"permanent", "timeout"})
          IN /\ res' = found.param
             /\ IF s2.last = "retryable" THEN Again(s2, st1)
                ELSE Proceed(DataSourceAfterFetch(data, resp, LoopErr(s2, found.err), found.param),
                             s2, st1)
    /\ UNCHANGED <<op, store, probe>>

StartOpen ==
    /\ Idle
    /\ \E config \in DataConfigs : Begin("Open", "fetch", config, config)

OpenFetch ==
    /\ op = "Open" /\ pc = "fetch"
    /\ \E answer \in GetParameter(store, ValueString(data.name)) :
       LET raw == WithDecryption(answer, Decryption(data))
           found == findParameterByName(raw) IN
       \E s2 \in RetryFunc(session, found.err, FetchTimeout) :
          LET st1 == Sent(Fetched(stats, raw), "GetParameter", TRUE, found.err,
                          s2.last \in {"permanent", "timeout"})
          IN /\ res' = found.param
             /\ IF s2.last = "retryable" THEN Again(s2, st1)
                ELSE Proceed(OpenAfterFetch(data, resp, LoopErr(s2, found.err), found.param),
                             s2, st1)
    /\ UNCHANGED <<op, store, probe>>

\* The host takes the response of the call that returned (after a crash, the
\* provider is started again)
Return ==
    /\ pc \in {"done", "panic"}
    /\ op' = "none"
    /\ pc' = "idle"
    /\ data' = NoState
    /\ res' = NoParam
    /\ session' = NewSession("none")
    /\ resp' = EmptyResponse
    /\ stats' = NewStats(NoState, NoState, stats.fresh)
    /\ UNCHANGED <<store, state, probe>>

\* Someone else writes the parameter: a new value, maybe a new description
RemoteWrite ==
    /\ Between
    /\ \E n \in Names, v \in Values, d \in {"keep", "d2"} :
          /\ store[n].exists
          /\ store[n].version < MaxVersion
          /\ store' = [store EXCEPT ![n].value = v,
                                    ![n].description = IF d = "keep" THEN @ ELSE d,
                                    ![n].version = @ + 1]
    /\ stats' = Touch(stats)
    /\ UNCHANGED <<state, op, pc, data, res, session, resp, probe>>

\* Someone else creates the parameter
RemoteCreate ==
    /\ Between
    /\ \E n \in Names, v \in Values, t \in Types :
          /\ ~store[n].exists
          /\ store' = [store EXCEPT ![n] =
                 [exists |-> TRUE, value |-> v, type |-> t, dataType |-> "text",
                  description |-> Nil, version |-> 1]]
    /\ stats' = Touch(stats)
    /\ UNCHANGED <<state, op, pc, data, res, session, resp, probe>>

\* Someone else deletes the parameter
RemoteDelete ==
    /\ Between
    /\ \E n \in Names :
          /\ store[n].exists
          /\ store' = [store EXCEPT ![n] = Absent]
    /\ stats' = Touch(stats)
    /\ UNCHANGED <<state, op, pc, data, res, session, resp, probe>>

\* A step of the handler in progress
Step ==
    \/ CreatePut \/ CreateGet
    \/ ReadFetch \/ ReadDescribe
    \/ UpdatePut \/ UpdateFetch
    \/ DeleteCall
    \/ DataReadFetch \/ OpenFetch

\* The lifecycle of the resource, and the other writers of the store
Next ==
    \/ StartCreate \/ StartRead \/ StartUpdate \/ StartDelete
    \/ CreatePut \/ CreateGet
    \/ ReadFetch \/ ReadDescribe
    \/ UpdatePut \/ UpdateFetch
    \/ DeleteCall
    \/ Return
    \/ RemoteWrite \/ RemoteCreate \/ RemoteDelete

Spec == Init /\ [][Next]_vars

\* The readers of the store: Read of the resource (whose state a Create
\* wrote), Read of the data source and Open of the ephemeral resource, and the
\* other writers of the store
Query ==
    \/ StartCreate \/ StartRead \/ StartDataRead \/ StartOpen
    \/ CreatePut \/ CreateGet
    \/ ReadFetch \/ ReadDescribe
    \/ DataReadFetch \/ OpenFetch
    \/ Return
    \/ RemoteWrite \/ RemoteCreate \/ RemoteDelete

QuerySpec == Init /\ [][Query]_vars

\* The lifecycle calls alone, the store written by nobody else.  The handler
\* is a sequential, blocking flow: it always takes its next step
Lifecycle ==
    \/ StartCreate \/ StartRead \/ StartUpdate \/ StartDelete
    \/ StartDataRead \/ StartOpen
    \/ Step
    \/ Return

FairSpec == Init /\ [][Lifecycle]_vars /\ WF_vars(Step)

----------------------------------------------------------------------------
(* The failure classifier applied to every shape of error *)

ErrorCodes ==
    {"", "ThrottlingException", "ParameterNotFound", "AccessDeniedException",
     "ParameterAlreadyExists", "ValidationException"}

ErrorShapes ==
    {NoError}
    \cup {Err(c, q, nf, e) : c \in ErrorCodes, q \in BOOLEAN, nf \in BOOLEAN, e \in BOOLEAN}
    \cup {Wrapf(Err(c, q, nf, e)) :
            c \in ErrorCodes, q \in BOOLEAN, nf \in BOOLEAN, e \in BOOLEAN}

ClassifyInit ==
    /\ store = [n \in Names |-> Absent]
    /\ state = NoState
    /\ op = "none"
    /\ pc = "idle"
    /\ data = NoState
    /\ res = NoParam
    /\ session = NewSession("none")
    /\ resp = EmptyResponse
    /\ stats = NewStats(NoState, NoState, FALSE)
    /\ probe \in {[NoProbe EXCEPT !.err = e] : e \in ErrorShapes}

Classify ==
    /\ ~probe.applied
    /\ probe' = [probe EXCEPT !.applied = TRUE, !.result = isRetryableError(probe.err)]
    /\ UNCHANGED <<store, state, op, pc, data, res, session, resp, stats>>

ClassifySpec == ClassifyInit /\ [][Classify]_vars

----------------------------------------------------------------------------
(* The write requests Create and Update build, for every plan *)

\* The plans of CreatePlans with the local-only attributes overwrite and tags
\* configured or not
WritePlans ==
    {[plan EXCEPT !.overwrite = o, !.tags = t] :
        plan \in CreatePlans, o \in {Null, "true", "false"}, t \in {Null, "t1"}}

NoInput == [kind |-> "none", plan |-> NoState, applied |-> FALSE, request |-> NoRequest]

InputInit ==
    /\ store = [n \in Names |-> Absent]
    /\ state = NoState
    /\ op = "none"
    /\ pc = "idle"
    /\ data = NoState
    /\ res = NoParam
    /\ session = NewSession("none")
    /\ resp = EmptyResponse
    /\ stats = NewStats(NoState, NoState, FALSE)
    /\ probe \in {[NoInput EXCEPT !.kind = k, !.plan = plan] :
                    k \in {"Create", "Update"}, plan \in WritePlans}

\* Create builds its input from the plan, Update from the plan it prepared
BuildInput ==
    /\ ~probe.applied
    /\ probe' = [probe EXCEPT !.applied = TRUE,
                              !.request = IF probe.kind = "Create"
                                          THEN CreateInput(probe.plan)
                                          ELSE UpdateInput(UpdatePrepare(probe.plan))]
    /\ UNCHANGED <<store, state, op, pc, data, res, session, resp, stats>>

InputSpec == InputInit /\ [][BuildInput]_vars

----------------------------------------------------------------------------
(* A change of the configuration of a record that exists: what the host
   plans from the schema, and the requests the handlers it calls build *)

\* The attributes of the schema whose plan modifiers hold RequiresReplace
RequiresReplace == {"name", "data_type"}

ChangeNames == {"n1", "n2"}
ChangeTypes == {"String", "StringList", "SecureString"}

\* The states a Create, an Update or a Read has written
PriorStates ==
    {Model(n, v, IF t = SecureString THEN Null ELSE v, t, "text", Null, ArnOf(n), 1) :
        n \in ChangeNames, v \in Values, t \in ChangeTypes}

\* The configurations: name and type are required, value is configured
Configurations ==
    {[name |-> n, type |-> t, value |-> v] :
        n \in ChangeNames, v \in Values, t \in ChangeTypes}

\* The planned record: the configured attributes as configured, the computed
\* ones that are not configured unknown, the rest as the schema defaults them
PlannedRecord(prior, config) ==
    [prior EXCEPT !.name = config.name, !.type = config.type, !.value = config.value,
                  !.insecure_value = Unknown, !.arn = Unknown, !.version = UnknownInt]

\* The host replaces the resource when an attribute that requires it changes
MustReplace(prior, plan) == \E a \in RequiresReplace : prior[a] # plan[a]

\* A configuration that differs from the prior state: the host calls no
\* handler for a plan without a difference
Changes ==
    {x \in PriorStates \X Configurations :
        \/ x[2].name # x[1].name \/ x[2].type # x[1].type \/ x[2].value # x[1].value}

NoChange ==
    [prior |-> NoState, config |-> Nil, pc |-> "plan", plan |-> NoState,
     replace |-> FALSE, deleted |-> Nil, request |-> NoRequest]

ChangeInit ==
    /\ store = [n \in Names |-> Absent]
    /\ state = NoState
    /\ op = "none"
    /\ pc = "idle"
    /\ data = NoState
    /\ res = NoParam
    /\ session = NewSession("none")
    /\ resp = EmptyResponse
    /\ stats = NewStats(NoState, NoState, FALSE)
    /\ probe \in {[NoChange EXCEPT !.prior = x[1], !.config = x[2]] : x \in Changes}

\* The host plans the change
PlanChange ==
    /\ probe.pc = "plan"
    /\ LET plan == PlannedRecord(probe.prior, probe.config)
       IN probe' = [probe EXCEPT !.pc = "apply", !.plan = plan,
                                 !.replace = MustReplace(probe.prior, plan)]
    /\ UNCHANGED <<store, state, op, pc, data, res, session, resp, stats>>

\* The host applies the plan: a replacement is a Delete of the prior record
\* and a Create of the planned one, anything else is an Update
ApplyChange ==
    /\ probe.pc = "apply"
    /\ probe' = IF probe.replace
                THEN [probe EXCEPT !.pc = "applied",
                                   !.deleted = ValueStringPointer(probe.prior.name),
                                   !.request = [CreateInput(probe.plan) EXCEPT !.sent = TRUE]]
                ELSE [probe EXCEPT !.pc = "applied",
                                   !.request = [UpdateInput(UpdatePrepare(probe.plan))
                                                    EXCEPT !.sent = TRUE]]
    /\ UNCHANGED <<store, state, op, pc, data, res, session, resp, stats>>

ChangeSpec == ChangeInit /\ [][PlanChange \/ ApplyChange]_vars

----------------------------------------------------------------------------
(* ParameterResource.MoveState: the state of an aws_ssm_parameter resource is
   adopted *)

\* Strings whose ending matters, as sequences of their pieces
Address(pieces) == pieces

\* strings.HasSuffix(s, suffix)
HasSuffix(s, suffix) ==
    /\ Len(s) >= Len(suffix)
    /\ SubSeq(s, Len(s) - Len(suffix) + 1, Len(s)) = suffix

HashicorpAws == Address(<<"hashicorp", "/", "aws">>)

\* Source provider addresses: the registry's, a mirror's, one of a namespace
\* that only ends like hashicorp, another provider's, a longer path, a short one
SourceProviderAddresses ==
    {Address(<<"registry.terraform.io", "/", "hashicorp", "/", "aws">>),
     Address(<<"mirror.example", "/", "hashicorp", "/", "aws">>),
     Address(<<"registry.terraform.io", "/", "not", "hashicorp", "/", "aws">>),
     Address(<<"registry.terraform.io", "/", "hashicorp", "/", "awscc">>),
     Address(<<"hashicorp", "/", "aws", "/", "v5">>),
     Address(<<"aws">>)}

SourceTypeNames == {"aws_ssm_parameter", "aws_ssm_document"}
SourceSchemaVersions == {0, 1}

\* awsSSMParameterResourceModel
awsSSMParameterResourceModel(value, insecure, type, description, overwrite, tags) ==
    [allowed_pattern |-> Null, arn |-> ArnOf("n1"), data_type |-> "text",
     description |-> description, id |-> "n1", insecure_value |-> insecure,
     key_id |-> IF type = SecureString THEN "alias/aws/ssm" ELSE Null,
     name |-> "n1", overwrite |-> overwrite, tags |-> tags, tags_all |-> tags,
     tier |-> "Standard", type |-> type, value |-> value, version |-> 1]

\* The states of an aws_ssm_parameter resource
SourceStates ==
    {awsSSMParameterResourceModel(v, Null, t, d, o, g) :
        v \in Values, t \in Types, d \in {Null, "d1"}, o \in {Null, "true"}, g \in {Null, "t1"}}
    \cup {awsSSMParameterResourceModel(v, v, "String", d, o, g) :
        v \in Values, d \in {Null, "d1"}, o \in {Null, "true"}, g \in {Null, "t1"}}

\* resource.MoveStateRequest; decodes: whether SourceState.Get can convert the
\* source state into the model
MoveStateRequests ==
    [SourceTypeName : SourceTypeNames,
     SourceSchemaVersion : SourceSchemaVersions,
     SourceProviderAddress : SourceProviderAddresses,
     SourceState : SourceStates,
     decodes : BOOLEAN]

\* resource.MoveStateResponse; decoded: SourceState.Get was called
MoveStateResponse == [errors |-> <<>>, TargetState |-> NoState, decoded |-> FALSE]

\* req.SourceState.Get(ctx, &sourceStateData)
SourceStateGet(req) ==
    IF req.decodes THEN [errors |-> <<>>, data |-> req.SourceState]
    ELSE [errors |-> <<"Value Conversion Error">>, data |-> NoState]

\* A target that takes insecure_value from the source as well
TargetWithInsecure(sourceStateData) ==
    [present |-> TRUE,
     allowed_pattern |-> sourceStateData.allowed_pattern,
     arn |-> sourceStateData.arn,
     data_type |-> sourceStateData.data_type,
     description |-> sourceStateData.description,
     value |-> sourceStateData.value,
     insecure_value |-> sourceStateData.insecure_value,
     name |-> sourceStateData.name,
     overwrite |-> sourceStateData.overwrite,
     tags |-> sourceStateData.tags,
     type |-> sourceStateData.type,
     version |-> sourceStateData.version]

\* targetStateData := ParameterResourceModel{...}: InsecureValue is not set
targetStateData(sourceStateData) ==
    [present |-> TRUE,
     allowed_pattern |-> sourceStateData.allowed_pattern,
     arn |-> sourceStateData.arn,
     data_type |-> sourceStateData.data_type,
     description |-> sourceStateData.description,
     value |-> sourceStateData.value,
     insecure_value |-> Null,
     name |-> sourceStateData.name,
     overwrite |-> sourceStateData.overwrite,
     tags |-> sourceStateData.tags,
     type |-> sourceStateData.type,
     version |-> sourceStateData.version]

\* A mover that goes on after a failed check and reports every failure
StateMoverReportsAll(req, r) ==
    LET r1 == IF req.SourceTypeName # "aws_ssm_parameter"
              THEN [r EXCEPT !.errors = Append(@, "Source schema name type mismatch")]
              ELSE r
        r2 == IF req.SourceSchemaVersion # 0
              THEN [r1 EXCEPT !.errors = Append(@, "Source schema version mismatch")]
              ELSE r1
        r3 == IF ~HasSuffix(req.SourceProviderAddress, HashicorpAws)
              THEN [r2 EXCEPT !.errors = Append(@, "Source provider unsupported")]
              ELSE r2
    IN IF r3.errors # <<>> THEN r3
       ELSE LET got == SourceStateGet(req)
                r4 == [r3 EXCEPT !.decoded = TRUE, !.errors = @ \o got.errors]
            IN IF r4.errors # <<>> THEN r4
               ELSE [r4 EXCEPT !.TargetState = targetStateData(got.data)]

\* The StateMover function of MoveState
StateMover(req, r) ==
    IF req.SourceTypeName # "aws_ssm_parameter"
    THEN [r EXCEPT !.errors = Append(@, "Source schema name type mismatch")]
    ELSE IF req.SourceSchemaVersion # 0
    THEN [r EXCEPT !.errors = Append(@, "Source schema version mismatch")]
    ELSE IF ~HasSuffix(req.SourceProviderAddress, HashicorpAws)
    THEN [r EXCEPT !.errors = Append(@, "Source provider unsupported")]
    ELSE LET got == SourceStateGet(req)
             r1 == [r EXCEPT !.decoded = TRUE, !.errors = @ \o got.errors]
         IN IF r1.errors # <<>> THEN r1
            ELSE [r1 EXCEPT !.TargetState = targetStateData(got.data)]

MoveInit ==
    /\ store = [n \in Names |-> Absent]
    /\ state = NoState
    /\ op = "none"
    /\ pc = "idle"
    /\ data = NoState
    /\ res = NoParam
    /\ session = NewSession("none")
    /\ resp = EmptyResponse
    /\ stats = NewStats(NoState, NoState, FALSE)
    /\ probe \in {[req |-> q, moved |-> FALSE, resp |-> MoveStateResponse] :
                    q \in MoveStateRequests}

\* The host moves the state: it calls the StateMover once
MoveState ==
    /\ ~probe.moved
    /\ probe' = [probe EXCEPT !.moved = TRUE, !.resp = StateMover(probe.req, probe.resp)]
    /\ UNCHANGED <<store, state, op, pc, data, res, session, resp, stats>>

MoveSpec == MoveInit /\ [][MoveState]_vars

----------------------------------------------------------------------------
(* Validation of a configuration by the validators of the schema, before the
   host plans and applies it *)

\* The values a configuration may give the type attribute: the valid types,
\* one that is not valid, and one not known yet
ConfiguredTypes == {"String", "StringList", "SecureString", "Binary", Unknown}

\* ... and value and insecure_value: nothing, a string, or one not known yet
ConfiguredValues == Values \cup {Null, Unknown}

ResourceConfigs ==
    [name : Names, type : ConfiguredTypes, value : ConfiguredValues,
     insecure_value : ConfiguredValues]

\* stringvalidator.ConflictsWith(other) on an attribute whose value is self
ConflictsWith(self, other) ==
    IF IsNull(self) THEN <<>>
    ELSE IF IsUnknown(other) THEN <<>>
    ELSE IF ~IsNull(other) THEN <<"Invalid Attribute Combination">>
    ELSE <<>>

\* stringvalidator.AtLeastOneOf(other, self) on an attribute whose value is self
AtLeastOneOf(self, other) ==
    IF IsUnknown(self) THEN <<>>
    ELSE IF ~IsNull(self) THEN <<>>
    ELSE IF IsUnknown(other) THEN <<>>
    ELSE IF ~IsNull(other) THEN <<>>
    ELSE <<"Invalid Attribute Combination">>

\* stringvalidator.OneOf(values...)
OneOf(self, values) ==
    IF IsNull(self) \/ IsUnknown(self) THEN <<>>
    ELSE IF self \in values THEN <<>>
    ELSE <<"Invalid Attribute Value Match">>

\* dependentParameterValidator.ValidateString on an attribute whose value is
\* self; dependent is the value of the attribute it depends on
dependentParameterValidator(self, dependent, requiredValue) ==
    IF IsNull(self) \/ IsUnknown(self) THEN <<>>
    ELSE IF ValueString(dependent) \in requiredValue THEN <<>>
    ELSE <<"Invalid Configuration">>

\* An insecure_value attribute without validators
InsecureValueUnchecked(config) == <<>>

\* The validators of insecure_value: all of them run
ValidateInsecureValue(config) ==
    ConflictsWith(config.insecure_value, config.value)
    \o dependentParameterValidator(config.insecure_value, config.type,
                                    {"String", "StringList"})

\* The validators of value: all of them run
ValidateValue(config) ==
    ConflictsWith(config.value, config.insecure_value)
    \o AtLeastOneOf(config.value, config.insecure_value)

\* The validators of type
ValidateType(config) == OneOf(config.type, {"String", "StringList", "SecureString"})

\* The diagnostics of the validation of a configuration
ValidateConfig(config) ==
    ValidateInsecureValue(config) \o ValidateType(config) \o ValidateValue(config)

\* Every value of the configuration is known
Known(config) ==
    ~IsUnknown(config.type) /\ ~IsUnknown(config.value) /\ ~IsUnknown(config.insecure_value)

\* The plan of a configuration for Create or Update
PlanOf(config) ==
    Model(config.name, config.value,
          IF IsNull(config.insecure_value) THEN Unknown ELSE config.insecure_value,
          config.type, "text", Null, Unknown, UnknownInt)

NoValidation ==
    [config |-> Nil, pc |-> "validate", diags |-> <<>>, kind |-> "none",
     request |-> NoRequest]

ValidateInit ==
    /\ store = [n \in Names |-> Absent]
    /\ state = NoState
    /\ op = "none"
    /\ pc = "idle"
    /\ data = NoState
    /\ res = NoParam
    /\ session = NewSession("none")
    /\ resp = EmptyResponse
    /\ stats = NewStats(NoState, NoState, FALSE)
    /\ probe \in {[NoValidation EXCEPT !.config = c] : c \in ResourceConfigs}

\* The host validates the configuration: with an error it goes no further
Validate ==
    /\ probe.pc = "validate"
    /\ LET diags == ValidateConfig(probe.config)
       IN probe' = [probe EXCEPT !.diags = diags,
                                 !.pc = IF diags # <<>> THEN "rejected" ELSE "valid"]
    /\ UNCHANGED <<store, state, op, pc, data, res, session, resp, stats>>

\* The host applies a valid configuration whose values are all known: Create
\* or Update builds its request from the plan
Apply ==
    /\ probe.pc = "valid"
    /\ Known(probe.config)
    /\ \E kind \in {"Create", "Update"} :
          probe' = [probe EXCEPT
                       !.pc = "applied",
                       !.kind = kind,
                       !.request =
                           IF kind = "Create"
                           THEN [CreateInput(PlanOf(probe.config)) EXCEPT !.sent = TRUE]
                           ELSE [UpdateInput(UpdatePrepare(PlanOf(probe.config)))
                                    EXCEPT !.sent = TRUE]]
    /\ UNCHANGED <<store, state, op, pc, data, res, session, resp, stats>>

ValidateSpec == ValidateInit /\ [][Validate \/ Apply]_vars

----------------------------------------------------------------------------
(* FastSSMProvider.Configure, and the Configure of the resource and of the
   data source that receive the client *)

NoClient == [exists |-> FALSE]

\* aws.ParseRetryMode
ParseRetryMode(v) == IF v \in {"standard", "adaptive"} THEN NoError ELSE ApiError("")

\* FastSSMProviderModel: the attributes Configure reads; decodes: whether
\* req.Config.Get can convert the configuration into the model
ProviderConfigs ==
    [decodes : BOOLEAN,
     retry_mode : {Null, "standard", "adaptive", "bogus"},
     region : {Null, "eu-west-1"},
     profile : {Null, "p1"},
     access_key : {Null, "ak"},
     secret_key : {Null, "sk"},
     token : {Null, "tk"}]

\* The answers of sts GetCallerIdentity: an error, an output without a user
\* id, an output with one
CallerIdentities ==
    {[err |-> AccessDenied, UserId |-> Nil],
     [err |-> NoError, UserId |-> Nil],
     [err |-> NoError, UserId |-> "AIDAEXAMPLE"]}

\* What Configure meets outside: whether config.LoadDefaultConfig succeeds,
\* and the answer of the identity check
ProviderEnvs == [load : {NoError, ApiError("")}, sts : CallerIdentities]

\* provider.ConfigureResponse; stsCalls: GetCallerIdentity requests sent
ConfigureResponse ==
    [errors |-> <<>>, DataSourceData |-> NoClient, ResourceData |-> NoClient,
     stsCalls |-> 0]

\* ssm.NewFromConfig(cfg), cfg loaded with the options of the configuration
NewFromConfig(d) ==
    [exists |-> TRUE, region |-> d.region, profile |-> d.profile,
     retryMode |-> d.retry_mode,
     static |-> ~IsNull(d.access_key) /\ ~IsNull(d.secret_key),
     token |-> IF ~IsNull(d.access_key) /\ ~IsNull(d.secret_key) THEN d.token ELSE Null]

\* A Configure that hands out the client whatever the identity check returned
ConfigureWithoutIdentity(d, env, r) ==
    IF ~d.decodes THEN [r EXCEPT !.errors = Append(@, "Value Conversion Error")]
    ELSE
    LET r1 == IF ~IsNull(d.retry_mode) /\ ~ParseRetryMode(ValueString(d.retry_mode)).nil
              THEN [r EXCEPT !.errors = Append(@, "parse retry_mode failed")]
              ELSE r
    IN IF ~env.load.nil
       THEN [r1 EXCEPT !.errors = Append(@, "provider configuration failed")]
       ELSE LET r2 == [r1 EXCEPT !.stsCalls = @ + 1]
            IN IF r2.errors # <<>> THEN r2
               ELSE [r2 EXCEPT !.DataSourceData = NewFromConfig(d),
                               !.ResourceData = NewFromConfig(d)]

\* FastSSMProvider.Configure
Configure(d, env, r) ==
    IF ~d.decodes THEN [r EXCEPT !.errors = Append(@, "Value Conversion Error")]
    ELSE
    LET r1 == IF ~IsNull(d.retry_mode) /\ ~ParseRetryMode(ValueString(d.retry_mode)).nil
              THEN [r EXCEPT !.errors = Append(@, "parse retry_mode failed")]
              ELSE r
    IN IF ~env.load.nil
       THEN [r1 EXCEPT !.errors = Append(@, "provider configuration failed")]
       ELSE LET r2 == [r1 EXCEPT !.stsCalls = @ + 1]
            IN IF ~env.sts.err.nil
               THEN [r2 EXCEPT !.errors =
                        Append(@, "provider configuration failed at STS GetCallerIdentity phase")]
               ELSE LET r3 == IF env.sts.UserId = Nil
                              THEN [r2 EXCEPT !.errors =
                                       Append(@, "couldn't get through STS authentication")]
                              ELSE r2
                    IN IF r3.errors # <<>> THEN r3
                       ELSE [r3 EXCEPT !.DataSourceData = NewFromConfig(d),
                                       !.ResourceData = NewFromConfig(d)]

\* ParameterResource.Configure and ParameterDataSource.Configure: the client
\* the resource or the data source holds afterwards
ReceiveClient(providerData) == IF ~providerData.exists THEN NoClient ELSE providerData

ConfigureInit ==
    /\ store = [n \in Names |-> Absent]
    /\ state = NoState
    /\ op = "none"
    /\ pc = "idle"
    /\ data = NoState
    /\ res = NoParam
    /\ session = NewSession("none")
    /\ resp = EmptyResponse
    /\ stats = NewStats(NoState, NoState, FALSE)
    /\ probe \in {[config |-> c, env |-> e, pc |-> "start", resp |-> ConfigureResponse,
                    resource |-> NoClient, datasource |-> NoClient, operations |-> 0] :
                    c \in ProviderConfigs, e \in ProviderEnvs}

\* The host configures the provider
ProviderConfigure ==
    /\ probe.pc = "start"
    /\ probe' = [probe EXCEPT !.pc = "configured",
                              !.resp = Configure(probe.config, probe.env, probe.resp)]
    /\ UNCHANGED <<store, state, op, pc, data, res, session, resp, stats>>

\* The host, when the provider was configured without an error, configures
\* the resource and the data source with the provider's data
ReceiverConfigure ==
    /\ probe.pc = "configured"
    /\ probe.resp.errors = <<>>
    /\ probe' = [probe EXCEPT !.pc = "ready",
                              !.resource = ReceiveClient(probe.resp.ResourceData),
                              !.datasource = ReceiveClient(probe.resp.DataSourceData)]
    /\ UNCHANGED <<store, state, op, pc, data, res, session, resp, stats>>

\* A handler of the resource or of the data source sends a request to the
\* parameter store through its client
Operate ==
    /\ probe.pc = "ready"
    /\ probe.resource.exists \/ probe.datasource.exists
    /\ probe.operations = 0
    /\ probe' = [probe EXCEPT !.operations = @ + 1]
    /\ UNCHANGED <<store, state, op, pc, data, res, session, resp, stats>>

ConfigureSpec == ConfigureInit /\ [][ProviderConfigure \/ ReceiverConfigure \/ Operate]_vars

----------------------------------------------------------------------------
(* ParameterResource.Read applied to every kind of prior record: one that a
   Create, an Update or a Read wrote, one that a state move wrote, and one
   that an import wrote *)

\* ParameterResource.ImportState: the passthrough sets the name and nothing else
ImportState(id) ==
    [present |-> TRUE, name |-> id, value |-> Null, insecure_value |-> Null,
     type |-> Null, data_type |-> Null, description |-> Null,
     allowed_pattern |-> Null, overwrite |-> Null, tags |-> Null,
     arn |-> Null, version |-> NullInt]

\* The versions of a parameter the store may hold
Versions == 1 .. MaxVersion

\* Records a Create, an Update or a Read wrote, with the attributes that are
\* only local configured or not
WrittenStates ==
    {[Model(n, v, IF t = SecureString THEN Null ELSE v, t, "text", d, ArnOf(n), k)
         EXCEPT !.allowed_pattern = a, !.overwrite = o, !.tags = g] :
        n \in Names, v \in Values, t \in Types, d \in {Null, "d1"}, k \in Versions,
        a \in {Null, "p1"}, o \in {Null, "true"}, g \in {Null, "t1"}}

\* req.State of Read, and where it comes from
RefreshPriors ==
    {[origin |-> "written", state |-> w] : w \in WrittenStates}
    \cup {[origin |-> "moved", state |-> targetStateData(x)] : x \in SourceStates}

ImportedPriors == {[origin |-> "imported", state |-> ImportState(n)] : n \in Names}

\* Read is about to run on the prior record x, and will be answered with e, f, m
Refreshing(x, e, f, m) ==
    [origin |-> x.origin, prior |-> x.state, err |-> e, fetched |-> f,
     metadata |-> m, pc |-> "fetch", data |-> x.state,
     resp |-> EmptyResponse, fetches |-> 0, enumerations |-> 0]

\* The parameters the store may answer the fetch with
FetchedParameters ==
    {ParameterOf(n, [type |-> t, value |-> v, dataType |-> "text", version |-> k]) :
        n \in Names, t \in Types, v \in Values, k \in Versions}

\* The errors the fetch loop may return
FetchErrors == {NoError, Wrapf(findParameterByName([err |-> ParameterNotFound,
                                                    param |-> NoParam]).err),
                Wrapf(AccessDenied)}

\* The answers the enumeration loop may return
MetadataAnswers ==
    {[err |-> Wrapf(AccessDenied), parameters |-> <<>>],
     [err |-> NoError, parameters |-> <<>>],
     [err |-> NoError, parameters |-> <<[description |-> Nil]>>],
     [err |-> NoError, parameters |-> <<[description |-> "d2"]>>],
     [err |-> NoError, parameters |-> <<[description |-> "d2"], [description |-> Nil]>>]}

RefreshInit ==
    /\ store = [n \in Names |-> Absent]
    /\ state = NoState
    /\ op = "none"
    /\ pc = "idle"
    /\ data = NoState
    /\ res = NoParam
    /\ session = NewSession("none")
    /\ resp = EmptyResponse
    /\ stats = NewStats(NoState, NoState, FALSE)
    /\ \/ probe \in {Refreshing(x, e, f, m) :
                       x \in RefreshPriors, e \in FetchErrors, f \in FetchedParameters,
                       m \in MetadataAnswers}
       \/ probe \in {Refreshing(x, e, f, m) :
                       x \in ImportedPriors, e \in FetchErrors, f \in FetchedParameters,
                       m \in MetadataAnswers}

\* Read's fetch loop returns, and Read goes on
RefreshFetch ==
    /\ probe.pc = "fetch"
    /\ LET p == IF probe.err.nil THEN probe.fetched ELSE NoParam
           f == ReadAfterFetch(probe.data, probe.resp, probe.err, p)
       IN probe' = [probe EXCEPT !.pc = f.pc, !.data = f.data, !.resp = f.resp,
                                 !.fetches = @ + 1]
    /\ UNCHANGED <<store, state, op, pc, data, res, session, resp, stats>>

\* Read's enumeration loop returns, and Read goes on
RefreshDescribe ==
    /\ probe.pc = "describe"
    /\ LET f == ReadAfterDescribe(probe.data, probe.resp, probe.metadata.err,
                                  probe.metadata.parameters, probe.fetched)
       IN probe' = [probe EXCEPT !.pc = f.pc, !.data = f.data, !.resp = f.resp,
                                 !.enumerations = @ + 1]
    /\ UNCHANGED <<store, state, op, pc, data, res, session, resp, stats>>

RefreshSpec == RefreshInit /\ [][RefreshFetch \/ RefreshDescribe]_vars

----------------------------------------------------------------------------
(* Two lifecycle calls in progress at once, for different names.  The
   resource holds the client alone; data, res, erri and the loop's clock are
   locals of each call, so a call is a frame of its own, and the calls meet
   only in the store, which every request addresses by name. *)

ConcurrentNames == {"n1", "n2"}

Calls == {1, 2}

\* The name the configuration gives the record call t is for
NameOf(t) == IF t = 1 THEN "n1" ELSE "n2"

\* The parameter of a record that exists, at version k
Stored(k) ==
    [exists |-> TRUE, value |-> "a", type |-> "String", dataType |-> "text",
     description |-> "d1", version |-> k]

\* The state the host holds for the record named n
Recorded(n) == Model(n, "a", "a", "String", "text", "d1", ArnOf(n), 1)

\* The plan of an Update of the record named n
Replanned(n) ==
    [Recorded(n) EXCEPT !.value = "b", !.insecure_value = Unknown,
                        !.arn = Unknown, !.version = UnknownInt]

ConcurrentOps == {"Create", "Read", "Update", "Delete"}

\* The frame of a call of handler o as it begins, d decoded from the request
CallOf(o, d) ==
    LET p == CASE o = "Create" -> "put"
               [] o = "Read" -> "fetch"
               [] o = "Update" -> "put"
               [] o = "Delete" -> "delete"
    IN [op |-> o, pc |-> p, data |-> d, res |-> NoParam, resp |-> EmptyResponse,
        session |-> NewSession(LoopApi(p))]

\* The frame of a call of handler o for the name n as the call begins
NewCall(o, n) ==
    CallOf(o, CASE o = "Create" -> Model(n, "a", Unknown, "String", "text", Null,
                                         Unknown, UnknownInt)
                [] o = "Read" -> Recorded(n)
                [] o = "Update" -> UpdatePrepare(Replanned(n))
                [] o = "Delete" -> Recorded(n))

\* What the store holds for the name as a call of handler o begins: nothing
\* before a Create, the recorded parameter or a later version of it otherwise
StoredBefore(o, k) == IF o = "Create" THEN Absent ELSE Stored(k)

\* The request a call in frame f sends, and the answers the store may give
Request(f, st) ==
    CASE f.pc = "put" /\ f.op = "Create" -> PutParameter(st, CreateInput(f.data))
      [] f.pc = "put" /\ f.op = "Update" -> PutParameter(st, UpdateInput(f.data))
      [] f.pc \in {"get", "fetch"} -> GetParameter(st, ValueString(f.data.name))
      [] f.pc = "describe" -> DescribeParameters(st, ValueString(f.data.name))
      [] f.pc = "delete" -> DeleteParameter(st, ValueString(f.data.name))

\* The error the closure of the call's loop sees for the answer a
Erri(f, a) == IF f.pc = "fetch" THEN findParameterByName(a).err ELSE a.err

\* The parameter the call holds in res after the answer a
Result(f, a) ==
    CASE f.pc = "fetch" -> findParameterByName(a).param
      [] f.pc = "get" -> a.param
      [] OTHER -> f.res

TimeoutOf(p) ==
    CASE p = "put" -> WriteTimeout
      [] p = "delete" -> WriteTimeout
      [] p = "fetch" -> FetchTimeout
      [] p = "describe" -> DescribeTimeout

\* The loop's sessions after the answer a (Create's read-back is one request
\* outside any loop)
SessionsAfter(f, a) ==
    IF f.pc = "get" THEN {f.session}
    ELSE RetryFunc(f.session, Erri(f, a), TimeoutOf(f.pc))

\* The store after the answer a
StoreAfter(f, st, a) == IF f.pc \in {"put", "delete"} THEN a.store ELSE st

\* The handler goes on after its request returned with the answer a; p is the
\* parameter the handler finds in res
Handler(f, p, a, s2) ==
    LET err == LoopErr(s2, Erri(f, a)) IN
    CASE f.op = "Create" /\ f.pc = "put" -> CreateAfterPut(f.data, f.resp, err, a.version)
      [] f.op = "Create" /\ f.pc = "get" -> CreateAfterGet(f.data, f.resp, a)
      [] f.op = "Read" /\ f.pc = "fetch" ->
            ReadAfterFetch(f.data, f.resp, err, findParameterByName(a).param)
      [] f.op = "Read" /\ f.pc = "describe" ->
            ReadAfterDescribe(f.data, f.resp, err, a.parameters, p)
      [] f.op = "Update" /\ f.pc = "put" -> UpdateAfterPut(f.data, f.resp, err, a.version)
      [] f.op = "Update" /\ f.pc = "fetch" ->
            UpdateAfterFetch(f.data, f.resp, err, findParameterByName(a).param)
      [] f.op = "Delete" /\ f.pc = "delete" -> DeleteAfter(f.data, f.resp, err)

\* The frame after the answer a left the loop in session s2: the closure is
\* called again, or the handler goes on
FrameAfter(f, p, a, s2) ==
    IF f.pc # "get" /\ s2.last = "retryable"
    THEN [f EXCEPT !.session = s2, !.res = Result(f, a)]
    ELSE LET g == Handler(f, p, a, s2)
         IN [f EXCEPT !.pc = g.pc, !.data = g.data, !.resp = g.resp,
                      !.res = Result(f, a),
                      !.session = IF g.pc \in LoopPcs THEN NewSession(LoopApi(g.pc))
                                  ELSE s2]

Returned(f) == f.pc \in {"done", "panic"}

\* What the host gets from a call that returned
Outcome(f) == [pc |-> f.pc, resp |-> f.resp]

\* The outcomes of the call in frame f when it runs alone against the store st
RECURSIVE Alone(_, _)
Alone(f, st) ==
    IF Returned(f) THEN {Outcome(f)}
    ELSE UNION {UNION {Alone(FrameAfter(f, f.res, a, s2), StoreAfter(f, st, a)) :
                          s2 \in SessionsAfter(f, a)} :
                   a \in Request(f, st)}

\* A resource that keeps the fetched parameter in a field every call shares
resShared(calls, t) ==
    IF calls[3 - t].res.exists THEN calls[3 - t].res ELSE calls[t].res

\* var res: the parameter a call fetched is a local of that call
resOf(calls, t) == calls[t].res

ConcurrentInit ==
    /\ state = NoState
    /\ op = "none"
    /\ pc = "idle"
    /\ data = NoState
    /\ res = NoParam
    /\ session = NewSession("none")
    /\ resp = EmptyResponse
    /\ stats = NewStats(NoState, NoState, FALSE)
    /\ \E o1 \in ConcurrentOps, o2 \in ConcurrentOps, k1 \in Versions, k2 \in Versions :
          /\ store = [n \in ConcurrentNames |->
                        IF n = NameOf(1) THEN StoredBefore(o1, k1) ELSE StoredBefore(o2, k2)]
          /\ probe = [calls |-> <<NewCall(o1, NameOf(1)), NewCall(o2, NameOf(2))>>,
                      alone |-> <<Alone(NewCall(o1, NameOf(1)),
                                        [n \in ConcurrentNames |->
                                           IF n = NameOf(1) THEN StoredBefore(o1, k1)
                                           ELSE StoredBefore(o2, k2)]),
                                  Alone(NewCall(o2, NameOf(2)),
                                        [n \in ConcurrentNames |->
                                           IF n = NameOf(1) THEN StoredBefore(o1, k1)
                                           ELSE StoredBefore(o2, k2)])>>]

\* Call t sends its next request and takes the answer
CallStep(t, o) ==
    /\ probe.calls[t].op = o
    /\ ~Returned(probe.calls[t])
    /\ LET f == probe.calls[t] IN
       \E a \in Request(f, store) :
       \E s2 \in SessionsAfter(f, a) :
          /\ store' = StoreAfter(f, store, a)
          /\ probe' = [probe EXCEPT !.calls[t] = FrameAfter(f, resOf(probe.calls, t), a, s2)]
    /\ UNCHANGED <<state, op, pc, data, res, session, resp, stats>>

ConcurrentCreate == \E t \in Calls : CallStep(t, "Create")

ConcurrentRead == \E t \in Calls : CallStep(t, "Read")

ConcurrentUpdate == \E t \in Calls : CallStep(t, "Update")

ConcurrentDelete == \E t \in Calls : CallStep(t, "Delete")

ConcurrentSpec ==
    ConcurrentInit
    /\ [][ConcurrentCreate \/ ConcurrentRead \/ ConcurrentUpdate \/ ConcurrentDelete]_vars

----------------------------------------------------------------------------
(* A write and the Read that follows it: Create or Update runs to its return
   against a store nobody else writes, the host persists the state it wrote,
   and Read runs on that state. *)

\* The parameter behind the state w
StoredFor(w) ==
    [exists |-> TRUE, value |-> w.value, type |-> w.type, dataType |-> w.data_type,
     description |-> ValueStringPointer(w.description), version |-> w.version]

\* The attribute the configuration gives the content through
ConfiguredThrough(plan) == IF IsNull(plan.value) THEN "insecure_value" ELSE "value"

\* The store answered a request with a fault, or GetParameter with no payload
Faulty(f, a) ==
    \/ a.err \in Faults
    \/ f.pc \in {"get", "fetch"} /\ a.err.nil /\ ~a.param.exists

Writing(o, d, plan) ==
    [phase |-> "write", through |-> ConfiguredThrough(plan), call |-> CallOf(o, d),
     written |-> NoState, faulted |-> FALSE, fetches |-> 0, enumerations |-> 0]

WriteReadInit ==
    /\ state = NoState
    /\ op = "none"
    /\ pc = "idle"
    /\ data = NoState
    /\ res = NoParam
    /\ session = NewSession("none")
    /\ resp = EmptyResponse
    /\ stats = NewStats(NoState, NoState, FALSE)
    /\ \/ \E plan \in CreatePlans :
             /\ store = [n \in Names |-> Absent]
             /\ probe = Writing("Create", plan, plan)
       \/ \E w \in {x \in WrittenStates : x.version = 1} :
          \E plan \in UpdatePlans(w) :
             /\ store = [n \in Names |-> StoredFor(w)]
             /\ probe = Writing("Update", UpdatePrepare(plan), plan)

\* The write call sends its next request and takes the answer
WriteCall ==
    /\ probe.phase = "write"
    /\ ~Returned(probe.call)
    /\ LET f == probe.call IN
       \E a \in Request(f, store) :
       \E s2 \in SessionsAfter(f, a) :
          /\ store' = StoreAfter(f, store, a)
          /\ probe' = [probe EXCEPT !.call = FrameAfter(f, f.res, a, s2),
                                    !.faulted = @ \/ Faulty(f, a)]
    /\ UNCHANGED <<state, op, pc, data, res, session, resp, stats>>

\* The write returned without error: the host persists the state it wrote
\* and refreshes it
ReadNext ==
    /\ probe.phase = "write"
    /\ Returned(probe.call)
    /\ ~HasError(probe.call.resp)
    /\ probe.call.resp.set
    /\ probe' = [probe EXCEPT !.phase = "read", !.written = probe.call.resp.state,
                              !.call = CallOf("Read", probe.call.resp.state)]
    /\ UNCHANGED <<store, state, op, pc, data, res, session, resp, stats>>

\* Read sends its next request and takes the answer
ReadCall ==
    /\ probe.phase = "read"
    /\ ~Returned(probe.call)
    /\ LET f == probe.call IN
       \E a \in Request(f, store) :
       \E s2 \in SessionsAfter(f, a) :
          /\ store' = StoreAfter(f, store, a)
          /\ probe' = [probe EXCEPT
                 !.call = FrameAfter(f, f.res, a, s2),
                 !.fetches = @ + (IF f.pc = "fetch" /\ a.err.nil THEN 1 ELSE 0),
                 !.enumerations = @ + (IF f.pc = "describe" THEN 1 ELSE 0)]
    /\ UNCHANGED <<state, op, pc, data, res, session, resp, stats>>

WriteReadSpec == WriteReadInit /\ [][WriteCall \/ ReadNext \/ ReadCall]_vars

----------------------------------------------------------------------------
(* Read called again and again for one record while someone else writes the
   parameter between the calls: a write that changes the value and the
   description, or a write that changes nothing Read fetches and so bumps the
   version alone. *)

Descriptions == {"d1", "d2"}

\* The states the resource wrote for a parameter with a description
DescribedStates ==
    {w \in WrittenStates :
        /\ w.version = 1 /\ w.description = "d1"
        /\ w.allowed_pattern = Null /\ w.overwrite = Null /\ w.tags = Null}

\* The local description is the remote one
InSync(s, p) == ValueStringPointer(s.description) = p.description

RepeatInit ==
    /\ state = NoState
    /\ op = "none"
    /\ pc = "idle"
    /\ data = NoState
    /\ res = NoParam
    /\ session = NewSession("none")
    /\ resp = EmptyResponse
    /\ stats = NewStats(NoState, NoState, FALSE)
    /\ \E w \in DescribedStates :
          /\ store = [n \in Names |-> StoredFor(w)]
          /\ probe = [state |-> w, busy |-> FALSE, call |-> CallOf("Read", w),
                      met |-> "none", pending |-> "none", absorbed |-> "none",
                      enumerations |-> 0]

\* Someone else writes a new value and a new description
RemoteChange ==
    /\ ~probe.busy
    /\ \E n \in Names, v \in Values, d \in Descriptions :
          /\ store[n].version <= MaxVersion
          /\ v # store[n].value
          /\ d # store[n].description
          /\ store' = [store EXCEPT ![n].value = v, ![n].description = d,
                                    ![n].version = @ + 1]
          /\ probe' = [probe EXCEPT !.pending =
                           IF @ = "none" /\ InSync(probe.state, store[n])
                           THEN "both" ELSE "several"]
    /\ UNCHANGED <<state, op, pc, data, res, session, resp, stats>>

\* Someone else writes the parameter with the value it has: the version alone
\* goes up, and maybe the description changes
RemoteBump ==
    /\ ~probe.busy
    /\ \E n \in Names, d \in Descriptions :
          /\ store[n].version <= MaxVersion
          /\ store' = [store EXCEPT ![n].description = d, ![n].version = @ + 1]
          /\ probe' = [probe EXCEPT !.pending = IF @ = "none" THEN "bump" ELSE "several"]
    /\ UNCHANGED <<state, op, pc, data, res, session, resp, stats>>

\* The host calls Read with the state it holds
RepeatStart ==
    /\ ~probe.busy
    /\ probe' = [probe EXCEPT !.busy = TRUE, !.call = CallOf("Read", probe.state),
                              !.met = probe.pending, !.enumerations = 0]
    /\ UNCHANGED <<store, state, op, pc, data, res, session, resp, stats>>

\* Read sends its next request and takes the answer
RepeatCall ==
    /\ probe.busy
    /\ ~Returned(probe.call)
    /\ LET f == probe.call IN
       \E a \in Request(f, store) :
       \E s2 \in SessionsAfter(f, a) :
          probe' = [probe EXCEPT
              !.call = FrameAfter(f, f.res, a, s2),
              !.enumerations = @ + (IF f.pc = "describe" THEN 1 ELSE 0)]
    /\ UNCHANGED <<store, state, op, pc, data, res, session, resp, stats>>

\* Read returned: the host persists the state of a Read without error
RepeatReturn ==
    /\ probe.busy
    /\ Returned(probe.call)
    /\ LET r == probe.call.resp
           ok == ~HasError(r) /\ r.set
       IN probe' = [probe EXCEPT
              !.busy = FALSE,
              !.state = Commit("Read", r, @),
              !.pending = IF ok THEN "none" ELSE @,
              !.absorbed = IF ok /\ probe.met # "none" THEN probe.met ELSE @]
    /\ UNCHANGED <<store, state, op, pc, data, res, session, resp, stats>>

RepeatSpec ==
    RepeatInit
    /\ [][RemoteChange \/ RemoteBump \/ RepeatStart \/ RepeatCall \/ RepeatReturn]_vars

----------------------------------------------------------------------------
(* Properties *)

Describe == "DescribeParameters"

\* C1: in Read, after a successful fetch, the enumeration call is issued if and
\* only if the fetched version differs from the prior local version and the
\* fetched name, type, data type and value all equal the prior local record's.
C1_EnumerationIff ==
    (op = "Read" /\ res.exists) =>
        ((pc = "describe" \/ stats.sent[Describe] > 0)
         <=> (/\ res.version # stats.prior.version
              /\ res.name = stats.prior.name
              /\ res.type = stats.prior.type
              /\ res.dataType = stats.prior.data_type
              /\ res.value = stats.prior.value))

\* local version 1, value unchanged, remote version 2: the Read enumerated
C1_Witness ==
    /\ op = "Read" /\ pc = "done" /\ res.exists
    /\ stats.sent[Describe] > 0
    /\ stats.prior.version = 1 /\ res.version = 2
    /\ res.value = stats.prior.value

\* C2: after a successful Read the local version equals the fetched version;
\* a Read that follows a successful Read with no write to the store in between
\* (nor during it) issues no enumeration call and, when it succeeds, has had
\* exactly one fetch served and writes a state identical to the previous one.
C2_ReadStable ==
    /\ (op = "Read" /\ pc = "done" /\ resp.set /\ ~HasError(resp))
          => state.version = res.version
    /\ (op = "Read" /\ stats.quiet) =>
          /\ pc # "describe"
          /\ stats.sent[Describe] = 0
          /\ (pc = "done" /\ ~HasError(resp)) =>
                /\ stats.served["GetParameter"] = 1
                /\ resp.set
                /\ resp.state = stats.prior
                /\ state = stats.prior

\* a second Read in a row, the store untouched, has succeeded (after a retry)
C2_Witness ==
    /\ op = "Read" /\ pc = "done" /\ stats.quiet /\ ~HasError(resp)
    /\ stats.sent["GetParameter"] = 2
    /\ state.version = 2

\* C3 as stated: within one Read the enumeration request is sent to the store
\* exactly once, never a second time.
C3_SentOnce == op = "Read" => stats.sent[Describe] <= 1

\* C3, amended: within one Read in which enumeration is warranted the
\* enumeration retry loop is entered exactly once and exactly one advisory
\* warning is added; the request is sent again only after an attempt that
\* failed with a retryable error, so at most one request is served; the
\* description written is that of the single result.
C3_EnumeratesOnce ==
    op = "Read" =>
        /\ stats.loops[Describe] <= 1
        /\ stats.served[Describe] <= 1
        /\ stats.loops[Describe] = 0 => (stats.sent[Describe] = 0 /\ resp.warnings = <<>>)
        /\ stats.loops[Describe] = 1 =>
              /\ resp.warnings = <<"Running DescribeParameter call">>
              /\ stats.sent[Describe] = session.attempts
              /\ stats.sent[Describe] - stats.served[Describe] \in
                    {session.retried, session.retried + 1}
              /\ (pc = "done" /\ resp.set) =>
                    /\ stats.served[Describe] = 1
                    /\ store[res.name].exists
                    /\ resp.state.description =
                          (IF store[res.name].description = Nil
                           THEN "" ELSE store[res.name].description)

\* a Read whose enumeration was throttled once and then served wrote the
\* store's description
C3_Witness ==
    /\ op = "Read" /\ pc = "done" /\ resp.set
    /\ stats.sent[Describe] = 2 /\ stats.served[Describe] = 1
    /\ resp.state.description = "d2"
    /\ stats.prior.description # "d2"

\* C4 as stated: every remote call of Create, Read, Update and Delete is made
\* inside a retry loop; no request is sent outside one.
C4_AllCallsInLoop == stats.bare = 0

Timeout(api) ==
    CASE api = "PutParameter" -> WriteTimeout
      [] api = "DeleteParameter" -> WriteTimeout
      [] api = "GetParameter" -> FetchTimeout
      [] api = "DescribeParameters" -> DescribeTimeout
      [] OTHER -> 0

\* The handler is inside the retry loop around `api`
InLoop(api) == pc \in LoopPcs /\ session.api = api /\ LoopApi(pc) = api

C6_RetryOnlyAfterRetryable ==
    /\ [][(session'.api = session.api /\ session'.attempts > session.attempts) =>
            /\ stats.answer \in {"none", "retryable"}
            /\ stats.answer = "none" <=> session.attempts = 0
            /\ session.elapsed < Timeout(session.api)]_vars
    /\ [](\A a \in Apis :
            InLoop(a) => /\ stats.answer \in {"none", "retryable"}
                         /\ session.elapsed < Timeout(a))
    /\ [](\A a \in Apis :
            (session.api = a /\ ~InLoop(a)) =>
                /\ stats.answer = "ok" <=> session.last = "success"
                /\ stats.answer = "permanent" <=> session.last = "permanent"
                /\ stats.answer = "retryable" <=> session.last = "timeout")

\* a second attempt, made after a throttled first one, succeeded
C6_Witness ==
    /\ session.attempts = 2 /\ session.retried = 1 /\ session.last = "success"
    /\ session.api = "PutParameter" /\ op = "Create" /\ pc = "done"

\* C7: the classifier returns retryable if and only if the error is, or wraps,
\* an API error with the code ThrottlingException or a quota-exceeded error;
\* so not for nil, NotFound, EmptyResult or an API error with another code.
C7_ClassifierIff ==
    probe.applied =>
        /\ probe.result.retry <=>
              (~probe.err.nil /\ (probe.err.api = "ThrottlingException" \/ probe.err.quota))
        /\ probe.err.nil => ~probe.result.retry

\* a wrapped API error with another code was classified non-retryable
C7_Witness ==
    /\ probe.applied /\ ~probe.err.nil
    /\ probe.err.api = "AccessDeniedException" /\ ~probe.err.quota /\ probe.err.wrapped
    /\ ~probe.result.retry

\* C8: in any retry loop the number of fixed-delay sleeps of the classifier
\* equals the number of attempts classified retryable.
C8_OneSleepPerRetryable ==
    /\ session.sleeps = session.retried
    /\ session.retried <= session.attempts
    /\ session.last \in {"success", "permanent"} => session.retried = session.attempts - 1
    /\ session.last \in {"none", "retryable", "timeout"} => session.retried = session.attempts

\* two throttled attempts, two sleeps
C8_Witness ==
    /\ session.attempts = 2 /\ session.retried = 2 /\ session.sleeps = 2

\* C9 as stated: a throttling or quota failure of a remote call is not
\* surfaced unless the deadline is exceeded: an operation whose requests failed
\* with retryable errors only, and none of whose loops timed out, returns
\* without an error diagnostic about a failed call.
C9_TransientNotSurfaced ==
    (pc = "done" /\ ~stats.hard /\ session.last # "timeout") =>
        \A i \in 1..Len(resp.errors) :
            resp.errors[i] = "Incorrect response for parameter metadata"

\* C10: when a remote call of Create, Read, Update or Delete ends in a
\* permanent failure that is not NotFound, or in a timeout, the operation has
\* returned without a further request, with an error diagnostic and without
\* writing state; no operation returns without an error diagnostic after one
\* of its remote calls failed for good.
C10_AbortOnFailure ==
    /\ stats.afterFail = 0
    /\ stats.failed # "no" => (pc = "done" /\ HasError(resp))
    /\ stats.failed = "other" => (~resp.set /\ state = stats.was)

\* the read-back fetch of an Update failed after its write was served
C10_Witness ==
    /\ op = "Update" /\ pc = "done" /\ stats.failed = "other"
    /\ stats.served["PutParameter"] = 1 /\ stats.sent["GetParameter"] > 0

Readers == {"Read", "DataRead", "Open"}

\* The response of a reader that took the 'parameter not found' path: the
\* diagnostic, and a state written with the name null and every other field
\* as in the prior record
NotFoundPath ==
    /\ pc = "done"
    /\ resp.errors = <<"parameter not found">>
    /\ resp.set
    /\ resp.state = [stats.prior EXCEPT !.name = Null]
    /\ stats.sent[Describe] = 0

\* C11: when the fetch of resource Read or data-source Read reports the
\* parameter absent, the operation takes the 'parameter not found' path (state
\* written with a null name, every other field as before, no enumeration call)
\* and not the 'Client Error' path.
C11_NotFoundRecognised ==
    (op \in {"Read", "DataRead"} /\ stats.fetched = "absent") => NotFoundPath

\* a Read whose fetch was throttled once and then answered ParameterNotFound
C11_Witness ==
    /\ op = "Read" /\ pc = "done" /\ stats.fetched = "absent"
    /\ stats.sent["GetParameter"] = 2
    /\ resp.set /\ resp.state.name = Null

\* C12 as stated: a Read of an externally removed parameter completes with no
\* error-severity diagnostic.
C12_NotFoundIsAdvisory ==
    (op = "Read" /\ pc = "done" /\ stats.fetched = "absent") => ~HasError(resp)

\* C13: a fetch answered without error and without a parameter leads resource
\* Read, data-source Read and ephemeral Open to the outcome of NotFound: the
\* 'parameter not found' path, reached without a further attempt.
C13_EmptyAsNotFound ==
    (op \in Readers /\ stats.fetched = "hollow") =>
        /\ NotFoundPath
        /\ session.last = "permanent"
        /\ stats.sent["GetParameter"] = session.attempts

\* an Open whose fetch was answered with an empty payload
C13_Witness ==
    /\ op = "Open" /\ pc = "done" /\ stats.fetched = "hollow"
    /\ resp.set /\ resp.state.name = Null
    /\ store[stats.prior.name].exists

\* C14: Create and Update write first and fetch second: no fetch before or
\* during the write's loop, a fetch only after that loop returned success, and
\* none when the write failed.
C14_WriteThenFetch ==
    (op \in {"Create", "Update"}) =>
        /\ pc = "put" => (stats.sent["GetParameter"] = 0 /\ stats.served["PutParameter"] = 0)
        /\ (pc \in {"get", "fetch"} \/ stats.sent["GetParameter"] > 0) =>
              (stats.served["PutParameter"] = 1 /\ stats.assigned > 0)
        /\ stats.served["PutParameter"] <= 1
        /\ (pc = "done" /\ stats.served["PutParameter"] = 0) => stats.sent["GetParameter"] = 0

\* an Update whose write was served and whose fetch took two attempts
C14_Witness ==
    /\ op = "Update" /\ pc = "done" /\ resp.set
    /\ stats.served["PutParameter"] = 1
    /\ stats.sent["GetParameter"] = 2

\* C15: Create sends its write without overwrite; when the name already
\* exists in the store, the stored parameter is unchanged after Create, which
\* ends with an error diagnostic and writes no state.
C15_CreateNeverClobbers ==
    (op = "Create" /\ stats.request.sent) =>
        /\ ~stats.request.overwrite
        /\ stats.before.exists =>
              /\ store[stats.request.name] = stats.before
              /\ stats.served["PutParameter"] = 0
              /\ pc \in {"put", "done"}
              /\ pc = "done" => (HasError(resp) /\ ~resp.set /\ state = stats.was)

\* a Create for a name that someone else had created: ParameterAlreadyExists
C15_Witness ==
    /\ op = "Create" /\ pc = "done" /\ stats.before.exists
    /\ stats.answer = "permanent"
    /\ resp.errors = <<"SSM parameter create error">>
    /\ store[stats.request.name].version = 1

\* The write request of the probed plan, had overwrite and tags not been configured
BareRequest ==
    LET bare == [probe.plan EXCEPT !.overwrite = Null, !.tags = Null]
    IN IF probe.kind = "Create" THEN CreateInput(bare)
       ELSE UpdateInput(UpdatePrepare(bare))

Populated(v) == v \notin {Null, Unknown}

\* The operative value of a plan: insecure_value when present and the type is
\* not SecureString, else value
Operative(plan) ==
    IF Populated(plan.insecure_value) /\ plan.type # SecureString
    THEN plan.insecure_value
    ELSE ValueString(plan.value)

\* C18 as stated: in Create and Update the value sent is the insecure_value
\* field's content when it is present and the type is not SecureString, and
\* the value field's content otherwise; never an empty string for a record
\* configured with insecure_value only.
C18_OperativeValueSent ==
    probe.applied =>
        /\ probe.request.value = Operative(probe.plan)
        /\ probe.request.value # ""

\* C19 as stated: after a successful resource Read, data-source Read or
\* ephemeral Open, insecure_value is the fetched value when the fetched type is
\* not SecureString and null when it is SecureString.
C19_InsecureByFetchedType ==
    (op \in Readers /\ pc = "done" /\ resp.set /\ ~HasError(resp)) =>
        resp.state.insecure_value =
            (IF res.type # SecureString THEN res.value ELSE Null)

\* C20 as stated: in a record written after a successful fetch exactly one of
\* value and insecure_value is populated: value only for SecureString,
\* insecure_value only otherwise.
C20_ExactlyOne ==
    (op = "Read" /\ pc = "done" /\ resp.set /\ ~HasError(resp)) =>
        /\ Populated(resp.state.value) <=> (res.type = SecureString)
        /\ Populated(resp.state.insecure_value) <=> (res.type # SecureString)

\* C20, amended: in a record written by Read after a successful fetch, value
\* is always populated, with the fetched value; when the fetched type is not
\* SecureString insecure_value is populated too and equals value; the two are
\* never both absent.
C20_ValueAlways ==
    (op = "Read" /\ pc = "done" /\ resp.set /\ ~HasError(resp)) =>
        /\ Populated(resp.state.value)
        /\ resp.state.value = res.value
        /\ res.type # SecureString => resp.state.insecure_value = resp.state.value

\* a Read of a String parameter wrote value and insecure_value, both "b"
C20_Witness ==
    /\ op = "Read" /\ pc = "done" /\ resp.set /\ ~HasError(resp)
    /\ res.type = "String"
    /\ resp.state.value = "b" /\ resp.state.insecure_value = "b"

\* An Update returned without an error diagnostic and wrote its state
UpdateSucceeded ==
    /\ op = "Update" /\ pc = "done"
    /\ ~HasError(resp) /\ resp.set

\* C21: after any successful Update of a record whose type is SecureString,
\* the written state's insecure_value is null, whatever insecure_value the
\* prior state or the plan held.
C21_SecureUpdateClearsInsecure ==
    (UpdateSucceeded /\ ValueString(resp.state.type) = SecureString)
        => IsNull(resp.state.insecure_value)

\* A successful Update of a SecureString record whose plan held an
\* insecure_value that was not null
C21_Witness ==
    /\ UpdateSucceeded
    /\ ValueString(resp.state.type) = SecureString
    /\ ~IsNull(stats.prior.insecure_value)
    /\ IsNull(resp.state.insecure_value)

\* C22: a record's name and type never change through an in-place Update: a
\* planned change of name or type is executed as a replacement (Delete of the
\* old parameter, then Create of the new one), so every write sent by Update
\* carries the name and the type of the prior state.
C22_IdentityKept ==
    (probe.pc = "applied" /\ ~probe.replace)
        => /\ probe.request.name = probe.prior.name
           /\ probe.request.type = ValueString(probe.prior.type)

\* C23: in every state written by Create, Update or Read, version is a value
\* the remote store returned during that same operation: the version the
\* served write returned for Create and Update, the fetched version for Read;
\* never the plan's, the configuration's or a client-side computation.
C23_VersionFromStore ==
    (pc = "done" /\ op \in {"Create", "Update", "Read"} /\ ~HasError(resp) /\ resp.set)
        => IF op = "Read"
           THEN /\ res.exists
                /\ resp.state.version = res.version
           ELSE /\ stats.served["PutParameter"] = 1
                /\ resp.state.version = stats.assigned

\* A successful Update whose written version is the one its write returned,
\* while its read-back met a later version, and which differs from the prior
\* state's version
C23_Witness ==
    /\ UpdateSucceeded
    /\ resp.state.version = stats.assigned
    /\ res.version # stats.assigned
    /\ stats.was.version # stats.assigned

\* C24 as stated: after every successful Update, the version in the written
\* state is strictly greater than the version in the state before the Update,
\* and the written value is the updated value.
C24_VersionAlwaysAdvances ==
    UpdateSucceeded
        => /\ resp.state.version > stats.was.version
           /\ resp.state.value = stats.prior.value

\* The write of an Update is served
UpdateServed == op = "Update" /\ pc = "put" /\ pc' = "fetch"

\* C24, amended: when the write of an Update meets the parameter in the store
\* at a version not below the prior state's, the version it returns is
\* strictly greater than the prior state's; the state a successful Update
\* writes carries the version its write returned and the updated value.
C24_VersionAdvances ==
    [][/\ (/\ UpdateServed
           /\ store[data.name].exists
           /\ store[data.name].version >= state.version)
          => stats'.assigned > state.version
       /\ UpdateSucceeded'
          => /\ resp'.state.version = stats'.assigned
             /\ resp'.state.value = stats'.prior.value
             /\ stats'.was = state]_vars

\* A successful Update that wrote a new value and a version above the prior
\* state's
C24_Witness ==
    /\ UpdateSucceeded
    /\ resp.state.version > stats.was.version
    /\ resp.state.value # stats.was.value
    /\ resp.state.value = stats.prior.value

\* Create or Update returned after its write was served and the fetch that
\* reads the parameter back failed
ReadBackFailed ==
    /\ op \in {"Create", "Update"} /\ pc = "done"
    /\ stats.served["PutParameter"] = 1
    /\ stats.sent["GetParameter"] >= 1
    /\ stats.failed # "no"

\* C25: if the read-back fetch after a successful write in Create or Update
\* fails (NotFound included), the operation ends with an error diagnostic and
\* writes no state, although the remote write has taken effect; NotFound on
\* this path is a hard error and does not take Read's state-clearing path.
C25_ReadBackFailureIsHard ==
    ReadBackFailed
        => /\ resp.errors = <<"parameter get failed">>
           /\ resp.warnings = <<>>
           /\ ~resp.set
           /\ state = stats.was
           /\ stats.assigned >= 1

\* An Update whose write was served and whose read-back found the parameter
\* gone
C25_Witness ==
    /\ ReadBackFailed
    /\ op = "Update"
    /\ stats.failed = "notfound"
    /\ HasError(resp)
    /\ state = stats.was

\* C26: Delete is idempotent: a Delete for a name that no longer exists in the
\* store completes without an error diagnostic, the store's not-found answer
\* to a delete not being escalated to a fatal error.
C26_DeleteIdempotent ==
    (op = "Delete" /\ pc = "done" /\ stats.removed = "absent")
        => /\ ~HasError(resp)
           /\ ~state.present

\* Read returned after the enumeration call was answered with no metadata
\* record or with more than one
AmbiguousMetadata ==
    /\ op = "Read" /\ pc = "done"
    /\ stats.matches >= 0
    /\ stats.matches # 1

\* C27: when the enumeration call returns zero or more than one metadata
\* record, Read adds the error 'Incorrect response for parameter metadata'
\* and writes no state, so the prior local record, its old version included,
\* is retained unchanged.
C27_AmbiguousMetadataIsError ==
    AmbiguousMetadata
        => /\ resp.errors = <<"Incorrect response for parameter metadata">>
           /\ ~resp.set
           /\ state = stats.was

\* A Read that was answered with two metadata records and left the record
\* with its old version, which is not the fetched one
C27_Witness ==
    /\ AmbiguousMetadata
    /\ stats.matches = 2
    /\ HasError(resp)
    /\ state = stats.was
    /\ res.exists
    /\ state.version # res.version

\* The checks of the state move, as the request answers them
TypeNameOk == probe.req.SourceTypeName = "aws_ssm_parameter"
SchemaVersionOk == probe.req.SourceSchemaVersion = 0
ProviderOk == HasSuffix(probe.req.SourceProviderAddress, HashicorpAws)

\* C28: state move: when the source type name is not aws_ssm_parameter, or the
\* source schema version is not 0, or the source provider address does not
\* end with hashicorp/aws, the move adds exactly one error diagnostic, that of
\* the first failing check in the order type name, schema version, provider
\* address, and leaves the target state unset: the source state is not
\* decoded and no field is copied.
C28_FirstFailingCheck ==
    (probe.moved /\ ~(TypeNameOk /\ SchemaVersionOk /\ ProviderOk))
        => /\ probe.resp.errors =
                  IF ~TypeNameOk THEN <<"Source schema name type mismatch">>
                  ELSE IF ~SchemaVersionOk THEN <<"Source schema version mismatch">>
                  ELSE <<"Source provider unsupported">>
           /\ probe.resp.TargetState = NoState
           /\ ~probe.resp.decoded

\* A move whose source fails the version check and the address check: only
\* the version mismatch is reported
C28_Witness ==
    /\ probe.moved
    /\ TypeNameOk /\ ~SchemaVersionOk /\ ~ProviderOk
    /\ probe.resp.errors = <<"Source schema version mismatch">>
    /\ probe.resp.TargetState = NoState

\* The attributes of the source copied into the target
Copied ==
    {"allowed_pattern", "arn", "data_type", "description", "value", "name",
     "overwrite", "tags", "type", "version"}

\* C29: state move: when all three preconditions hold (and the source state
\* decodes), the target record's allowed_pattern, arn, data_type, description,
\* value, name, overwrite, tags, type and version equal the source record's;
\* insecure_value is null in the target whatever the source held, and the
\* legacy-only fields id, key_id, tags_all and tier are dropped.
C29_FieldsCopied ==
    (probe.moved /\ TypeNameOk /\ SchemaVersionOk /\ ProviderOk /\ probe.req.decodes)
        => /\ probe.resp.errors = <<>>
           /\ probe.resp.TargetState.present
           /\ \A a \in Copied : probe.resp.TargetState[a] = probe.req.SourceState[a]
           /\ IsNull(probe.resp.TargetState.insecure_value)
           /\ DOMAIN probe.resp.TargetState = Copied \cup {"insecure_value", "present"}

\* A move from a mirror's address of a source that held an insecure_value,
\* tags and a key: the target has the value, the tags and no insecure_value
C29_Witness ==
    /\ probe.moved
    /\ probe.resp.TargetState.present
    /\ probe.req.SourceProviderAddress[1] = "mirror.example"
    /\ ~IsNull(probe.req.SourceState.insecure_value)
    /\ ~IsNull(probe.req.SourceState.tags)
    /\ probe.resp.TargetState.tags = probe.req.SourceState.tags
    /\ probe.resp.TargetState.value = probe.req.SourceState.value
    /\ IsNull(probe.resp.TargetState.insecure_value)

\* The configuration supplies the attribute: a value that is known
Supplied(v) == ~IsNull(v) /\ ~IsUnknown(v)

\* The configuration supplies both value and insecure_value
BothSupplied == Supplied(probe.config.value) /\ Supplied(probe.config.insecure_value)

\* The configuration supplies insecure_value with a type other than String
\* and StringList
InsecureMisplaced ==
    /\ Supplied(probe.config.insecure_value)
    /\ probe.config.type \notin {"String", "StringList"}

\* C30: a configuration that supplies both value and insecure_value, or that
\* supplies insecure_value with a type other than String or StringList, is
\* rejected with an error diagnostic at validation, before any remote call:
\* neither Create nor Update builds a request for it, so the conflict is
\* never resolved silently by picking one of the two fields.
C30_ConflictRejected ==
    (probe.pc # "validate" /\ (BothSupplied \/ InsecureMisplaced))
        => /\ probe.diags # <<>>
           /\ probe.pc = "rejected"
           /\ ~probe.request.sent

\* A configuration of type String with both value and insecure_value was
\* rejected: each of the two attributes reported the combination
C30_Witness ==
    /\ probe.pc = "rejected"
    /\ BothSupplied
    /\ probe.config.type = "String"
    /\ probe.diags = <<"Invalid Attribute Combination", "Invalid Attribute Combination">>
    /\ ~probe.request.sent

\* The identity check was answered without an error and with a user id
IdentityConfirmed == probe.env.sts.err.nil /\ probe.env.sts.UserId # Nil

C32_NeverCrashes == pc # "panic"

\* Read of the data source returned after its last fetch was answered with
\* the parameter
DataReadServed == op = "DataRead" /\ pc = "done" /\ stats.fetched = "parameter"

\* C33: a data-source Read of an existing parameter returns arn, name, type,
\* version and value equal to the store's current record for that name
\* (version 1 and the created value directly after a Create), and it requests
\* decryption unless with_decryption is explicitly set to false: the value of
\* a SecureString parameter is the ciphertext only in that case.
C33_DataSourceMirrorsStore ==
    DataReadServed
        => LET name == stats.prior.name
               p == store[name]
               decrypt == stats.prior.with_decryption # "false"
           IN /\ ~HasError(resp) /\ resp.set
              /\ p.exists
              /\ resp.state.name = name
              /\ resp.state.arn = ArnOf(name)
              /\ resp.state.type = p.type
              /\ resp.state.version = p.version
              /\ resp.state.value = IF p.type = SecureString /\ ~decrypt
                                    THEN Ciphertext(p.value) ELSE p.value

\* A data-source Read without with_decryption, directly after the Create of
\* a SecureString parameter: version 1 and the created value, decrypted
C33_Witness ==
    /\ DataReadServed
    /\ IsNull(stats.prior.with_decryption)
    /\ state.present
    /\ resp.state.type = SecureString
    /\ resp.state.version = 1
    /\ resp.state.value = state.value

\* The Read on the given prior record returned without an error diagnostic
\* and wrote its state
RefreshSucceeded ==
    /\ probe.pc = "done"
    /\ ~HasError(probe.resp) /\ probe.resp.set

\* C34: a successful Read changes only arn, name, type, version, data_type,
\* value and insecure_value, plus description when and only when enumeration
\* ran: allowed_pattern, overwrite and tags are always carried over unchanged
\* from the prior state, and description is carried over unchanged in every
\* Read that does not enumerate.
C34_ReadFrame ==
    RefreshSucceeded
        => /\ probe.resp.state.allowed_pattern = probe.prior.allowed_pattern
           /\ probe.resp.state.overwrite = probe.prior.overwrite
           /\ probe.resp.state.tags = probe.prior.tags
           /\ probe.enumerations = 0
                 => probe.resp.state.description = probe.prior.description
           /\ DOMAIN probe.resp.state = DOMAIN probe.prior

\* A Read that met a new value and a new version, did not enumerate, and
\* carried over the description, the pattern, overwrite and the tags, all
\* of them configured
C34_Witness ==
    /\ RefreshSucceeded
    /\ probe.origin = "written"
    /\ probe.enumerations = 0
    /\ probe.resp.state.value # probe.prior.value
    /\ probe.resp.state.version # probe.prior.version
    /\ probe.prior.description = "d1" /\ probe.resp.state.description = "d1"
    /\ probe.prior.allowed_pattern = "p1" /\ probe.resp.state.allowed_pattern = "p1"
    /\ probe.prior.overwrite = "true" /\ probe.resp.state.overwrite = "true"
    /\ probe.prior.tags = "t1" /\ probe.resp.state.tags = "t1"


\* C35: two lifecycle calls for different names, their requests, retries and
\* sleeps interleaved in any order, do not affect each other: what each call
\* returns (state and diagnostics) is something it returns when it runs alone
\* against the same store
C35_CallsIndependent ==
    ("calls" \in DOMAIN probe) =>
        \A t \in Calls :
            Returned(probe.calls[t]) => Outcome(probe.calls[t]) \in probe.alone[t]

\* A Read that enumerated and an Update of another name, each retried, both
\* returned with their states written
C35_Witness ==
    /\ "calls" \in DOMAIN probe
    /\ \A t \in Calls :
          /\ Returned(probe.calls[t])
          /\ probe.calls[t].session.retried > 0
    /\ probe.calls[1].op = "Read" /\ probe.calls[1].resp.set
    /\ probe.calls[1].resp.warnings # <<>>
    /\ probe.calls[2].op = "Update" /\ probe.calls[2].resp.set


\* The write call returned after the store served every request of it
WriteServed ==
    /\ probe.phase = "write"
    /\ Returned(probe.call)
    /\ ~probe.faulted

\* The Read that followed the write returned without error
ReadAfterWrite ==
    /\ probe.phase = "read"
    /\ Returned(probe.call)
    /\ ~HasError(probe.call.resp)

\* The Read performed one fetch and no enumeration and wrote the state the
\* write had written
NoDrift ==
    /\ probe.fetches = 1
    /\ probe.enumerations = 0
    /\ probe.call.resp.set
    /\ probe.call.resp.state = probe.written

SameAsRecorded(d, p) ==
    /\ p.name = d.name
    /\ p.type = d.type
    /\ p.dataType = d.data_type
    /\ p.value = d.value
    /\ p.version = d.version

\* The attributes MoveState copies from the source state
CopiedAttributes ==
    {"allowed_pattern", "arn", "data_type", "description", "value", "name",
     "overwrite", "tags", "type", "version"}

\* The Read of a moved state, the fetch answered with the parameter the legacy
\* state recorded
AdoptionRead ==
    /\ "origin" \in DOMAIN probe
    /\ probe.origin = "moved"
    /\ probe.err.nil
    /\ SameAsRecorded(probe.prior, probe.fetched)

ImportRead ==
    /\ "origin" \in DOMAIN probe
    /\ probe.origin = "imported"

\* C38: the Read that directly follows an import never issues the enumeration
\* call, the absent local type never being equal to the fetched type, and
\* description stays absent in the state it writes, also when the remote
\* parameter has a description
C38_ImportNeverEnumerates ==
    ImportRead =>
        /\ probe.pc # "describe"
        /\ probe.enumerations = 0
        /\ probe.resp.warnings = <<>>
        /\ RefreshSucceeded => IsNull(probe.resp.state.description)

\* An imported state was refreshed from a parameter that has a description
C38_Witness ==
    /\ ImportRead
    /\ RefreshSucceeded
    /\ probe.fetches = 1
    /\ probe.metadata.err.nil
    /\ Len(probe.metadata.parameters) = 1
    /\ probe.metadata.parameters[1].description = "d2"
    /\ probe.resp.state.type = probe.fetched.type


\* The Read in progress returned without error
RepeatSucceeded ==
    /\ Returned(probe.call)
    /\ ~HasError(probe.call.resp)
    /\ probe.call.resp.set

\* C39: when one remote change alters the value and the description, the next
\* Read stores the new version without enumerating and keeps the old local
\* description; every later Read with no remote write in between sees equal
\* versions and never enumerates, so the local description stays different
\* from the remote one (until someone bumps the version alone)
C39_DescriptionLags ==
    ("met" \in DOMAIN probe) =>
        \A n \in Names :
            /\ (probe.busy /\ probe.met = "both") =>
                  /\ probe.call.pc # "describe"
                  /\ probe.enumerations = 0
                  /\ RepeatSucceeded =>
                        /\ probe.call.resp.state.version = store[n].version
                        /\ probe.call.resp.state.value = store[n].value
                        /\ probe.call.resp.state.description = probe.state.description
                        /\ ~InSync(probe.call.resp.state, store[n])
            /\ (probe.busy /\ probe.met = "none") =>
                  /\ probe.call.pc # "describe"
                  /\ probe.enumerations = 0
                  /\ probe.state.version = store[n].version
                  /\ RepeatSucceeded => probe.call.resp.state = probe.state
            /\ (probe.pending = "none" /\ probe.absorbed = "both") =>
                  ~InSync(probe.state, store[n])

\* A later Read, after the Read that took the new value, returned, the
\* description still the old one
C39_Witness ==
    /\ "met" \in DOMAIN probe
    /\ probe.busy
    /\ probe.met = "none"
    /\ probe.absorbed = "both"
    /\ RepeatSucceeded
    /\ probe.call.session.retried > 0
    /\ probe.state.description = "d1"
    /\ \A n \in Names : store[n].description = "d2" /\ store[n].version = 2

====
